---- MODULE Spec2Model ----
(***************************************************************************)
(* A model of the forthchan stack machine (src/machine.py): the data path  *)
(* with its latches, the control unit's per-opcode micro-sequences, the    *)
(* interrupt entry and return, and the driver loop do_simulation.          *)
(***************************************************************************)
EXTENDS Integers, Sequences, FiniteSets, TLC

(***************************************************************************)
(* Bounds of the model.                                                    *)
(***************************************************************************)
\* data_memory_size handed to simulation()
DataMemorySize == 22
\* the input schedule's tick indices are drawn from 0..MaxInputTick
MaxInputTick == 5
\* the largest ticks_limit handed to simulation()
MaxTicksLimit == 26

(***************************************************************************)
(* Memory cells and register values.  A Python value held by a cell or a   *)
(* register is an int (k = "num", value in arg), an Instruction object     *)
(* (k = "ins"; id is the address write_code stored it at and stands for    *)
(* the object's identity, has_arg = FALSE is arg None), a str (k = "str":  *)
(* the class defaults of top and next are the string "None", and the only  *)
(* strings arithmetic can build from it are its repetitions, arg times) or *)
(* None (k = "none").  k = "err" is the value of an expression that        *)
(* raises.  The pointers od_sh_pointer and pra_shp_pointer are only ever   *)
(* incremented and decremented and are held as plain integers.             *)
(***************************************************************************)
Num(n) == [k |-> "num", opcode |-> "", arg |-> n, has_arg |-> TRUE, id |-> 0]

Str(n) == [k |-> "str", opcode |-> "", arg |-> n, has_arg |-> TRUE, id |-> 0]

NoneStr == Str(1)

Err == [k |-> "err", opcode |-> "", arg |-> 0, has_arg |-> FALSE, id |-> 0]

Instruction(opcode, arg) ==
    [k |-> "ins", opcode |-> opcode, arg |-> arg, has_arg |-> TRUE, id |-> 0]

InstructionNoArg(opcode) ==
    [k |-> "ins", opcode |-> opcode, arg |-> 0, has_arg |-> FALSE, id |-> 0]

IsNum(c) == c.k = "num"

\* Python's None
NoneValue == [k |-> "none", opcode |-> "", arg |-> 0, has_arg |-> FALSE, id |-> 0]

\* instruction.arg as a Python value
ArgValue(instruction) == IF instruction.has_arg THEN Num(instruction.arg) ELSE NoneValue

\* instruction.arg as an operand of + or as an index: None raises
ArgOf(instruction) == IF instruction.has_arg THEN Num(instruction.arg) ELSE Err

Max(a, b) == IF a >= b THEN a ELSE b

(***************************************************************************)
(* Python's operators on these values.                                     *)
(***************************************************************************)
PyAdd(a, b) ==
    CASE IsNum(a) /\ IsNum(b) -> Num(a.arg + b.arg)
      [] a.k = "str" /\ b.k = "str" -> Str(a.arg + b.arg)
      [] OTHER -> Err

PySub(a, b) == IF IsNum(a) /\ IsNum(b) THEN Num(a.arg - b.arg) ELSE Err

PyMul(a, b) ==
    CASE IsNum(a) /\ IsNum(b) -> Num(a.arg * b.arg)
      [] a.k = "str" /\ IsNum(b) -> Str(Max(0, a.arg * b.arg))
      [] IsNum(a) /\ b.k = "str" -> Str(Max(0, a.arg * b.arg))
      [] OTHER -> Err

\* a variant that rounds the quotient towards zero
PyFloorDiv_truncating(a, b) ==
    LET abs(x) == IF x < 0 THEN 0 - x ELSE x
        q == abs(a.arg) \div abs(b.arg)
    IN IF IsNum(a) /\ IsNum(b) /\ b.arg # 0
       THEN Num(IF (a.arg < 0) # (b.arg < 0) THEN 0 - q ELSE q)
       ELSE Err

\* // is floor division; division by zero raises
PyFloorDiv(a, b) ==
    IF IsNum(a) /\ IsNum(b) /\ b.arg # 0 THEN Num(a.arg \div b.arg) ELSE Err

\* % takes the sign of the divisor
PyMod(a, b) ==
    IF IsNum(a) /\ IsNum(b) /\ b.arg # 0
    THEN Num(a.arg - b.arg * (a.arg \div b.arg))
    ELSE Err

\* == never raises: values of different types are unequal, Instruction
\* objects are compared by identity
PyEq(a, b) == a.k # "err" /\ a = b

\* < is defined between two ints and between two strs (a repetition of
\* "None" is smaller than every longer one)
PyOrdered(a, b) == (IsNum(a) /\ IsNum(b)) \/ (a.k = "str" /\ b.k = "str")

\* a variant with -1 for true and 0 for false
Flag_minus_one_for_true(cond) == IF cond THEN Num(-1) ELSE Num(0)

Flag(cond) == IF cond THEN Num(0) ELSE Num(-1)

\* a variant that gives 1 for a number that is not 0
signal_convert_of_nonzero(input_number) == IF PyEq(input_number, Num(0)) THEN 0 ELSE 1

signal_convert(input_number) == IF PyEq(input_number, Num(0)) THEN 1 ELSE 0

(***************************************************************************)
(* List indexing: data_memory[a] accepts an int in -M..M-1, a negative     *)
(* index counting from the end of the list.                                *)
(***************************************************************************)
IndexOK(mem, a) == IsNum(a) /\ a.arg >= -Len(mem) /\ a.arg < Len(mem)

\* data_memory is held as a sequence: Python's cell i is element i + 1
Slot(mem, a) == IF a.arg >= 0 THEN a.arg + 1 ELSE a.arg + Len(mem) + 1

MemRead(mem, a) == IF IndexOK(mem, a) THEN mem[Slot(mem, a)] ELSE Err

(***************************************************************************)
(* DataPath.  A data path is a record of the object's fields: data_memory, *)
(* instruction_pointer, top, next, pra_shp_pointer, od_stack_start,        *)
(* od_sh_pointer, instruction_stage_number, ports, var_data_start_point    *)
(* and cur_tick_regs_state; raised records that a statement has raised an  *)
(* exception, after which nothing more of the tick is executed.            *)
(***************************************************************************)
Port == [filled_with_device |-> FALSE, filled_with_cpu |-> FALSE, data |-> Num(0)]

RegsState(ip, od_shp, pra_shp, top_reg, next_reg) ==
    [ip |-> ip, od_shp |-> od_shp, pra_shp |-> pra_shp, top |-> top_reg, next |-> next_reg]

Raise(dp) == [dp EXCEPT !.raised = TRUE]

\* register = value, raising when the expression for value raised
SetIp(dp, v) == IF v.k = "err" THEN Raise(dp) ELSE [dp EXCEPT !.instruction_pointer = v]

SetTop(dp, v) == IF v.k = "err" THEN Raise(dp) ELSE [dp EXCEPT !.top = v]

SetNext(dp, v) == IF v.k = "err" THEN Raise(dp) ELSE [dp EXCEPT !.next = v]

\* data_memory[a] = v
MemWrite(dp, a, v) ==
    IF v.k # "err" /\ IndexOK(dp.data_memory, a)
    THEN [dp EXCEPT !.data_memory[Slot(dp.data_memory, a)] = v]
    ELSE Raise(dp)

Mem(dp, a) == MemRead(dp.data_memory, a)

\* ports[a]
PortOK(dp, a) == IsNum(a) /\ a.arg >= -Len(dp.ports) /\ a.arg < Len(dp.ports)

PortSlot(dp, a) == IF a.arg >= 0 THEN a.arg + 1 ELSE a.arg + Len(dp.ports) + 1

BinaryAlu == {"sum", "diff", "div", "mul", "mod", "eq", "neq", "less", "gr", "le", "ge"}

latch_ip(dp, instruction, latch_input) ==
    LET cur == dp.cur_tick_regs_state
        ip == dp.instruction_pointer
        top_conv_sig == signal_convert(cur.top)
        pra_ma_out == Mem(dp, Num(cur.pra_shp))
        pra_ma_out_conv_sig == signal_convert(pra_ma_out)
    IN CASE latch_input = "TOP" -> SetIp(dp, cur.top)
         [] latch_input = "IP_CONV_SIG_SUM_INC" ->
              IF pra_ma_out.k = "err" THEN Raise(dp)
              ELSE CASE instruction.opcode = "exec if" ->
                          SetIp(dp, PyAdd(ip, Num(1 + top_conv_sig)))
                     [] instruction.opcode = "exec cond jmp" ->
                          SetIp(dp, PyAdd(ip, IF top_conv_sig = 1 THEN Num(1)
                                              ELSE PyAdd(Num(1), ArgOf(instruction))))
                     [] instruction.opcode = "exec cond jmp ret" ->
                          SetIp(dp, PyAdd(ip, IF pra_ma_out_conv_sig = 1 THEN Num(1)
                                              ELSE PyAdd(Num(1), ArgOf(instruction))))
                     [] OTHER -> Raise(dp)
         [] latch_input = "IP_MINUS_TOP" -> SetIp(dp, PySub(ip, cur.top))
         [] latch_input = "IP_PLUS_ARG" -> SetIp(dp, PyAdd(ip, ArgOf(instruction)))
         [] latch_input = "IP_INC" -> SetIp(dp, PyAdd(ip, Num(1)))
         [] OTHER -> Raise(dp)

latch_od_shp(dp, instruction, latch_input) ==
    CASE latch_input = "OD_SHP_INC" -> [dp EXCEPT !.od_sh_pointer = @ + 1]
      [] latch_input = "OD_SHP_DEC" -> [dp EXCEPT !.od_sh_pointer = @ - 1]
      [] latch_input = "OD_SHP_MINUS_TWO" -> [dp EXCEPT !.od_sh_pointer = @ - 2]
      [] OTHER -> Raise(dp)

latch_pra_shp(dp, instruction, latch_input) ==
    CASE latch_input = "PRA_SHP_INC" -> [dp EXCEPT !.pra_shp_pointer = @ + 1]
      [] latch_input = "PRA_SHP_DEC" -> [dp EXCEPT !.pra_shp_pointer = @ - 1]
      [] OTHER -> Raise(dp)

\* the ALU_OUT input of latch_top
AluOut(dp, instruction) ==
    LET cur == dp.cur_tick_regs_state
        n == cur.next
        t == cur.top
        op == instruction.opcode
        isn == dp.instruction_stage_number
    IN CASE op = "sum" -> PyAdd(n, t)
         [] op = "diff" -> PySub(n, t)
         [] op = "div" -> PyFloorDiv(n, t)
         [] op = "mul" -> PyMul(n, t)
         [] op = "mod" -> PyMod(n, t)
         [] op = "eq" -> Flag(PyEq(n, t))
         [] op = "neq" -> Flag(~PyEq(n, t))
         [] op = "less" -> IF PyOrdered(n, t) THEN Flag(n.arg < t.arg) ELSE Err
         [] op = "gr" -> IF PyOrdered(n, t) THEN Flag(n.arg > t.arg) ELSE Err
         [] op = "le" -> IF PyOrdered(n, t) THEN Flag(n.arg <= t.arg) ELSE Err
         [] op = "ge" -> IF PyOrdered(n, t) THEN Flag(n.arg >= t.arg) ELSE Err
         [] op = "shift back" -> n
         [] op = "eq not consuming ret" ->
              CASE PyEq(isn, Num(1)) ->
                     LET a == Mem(dp, Num(cur.pra_shp + 1))
                         b == Mem(dp, Num(cur.pra_shp))
                     IN IF a.k = "err" \/ b.k = "err" THEN Err ELSE Flag(PyEq(a, b))
                [] PyEq(isn, Num(3)) -> Mem(dp, Num(cur.od_shp))
                [] OTHER -> Err
         [] OTHER -> Err

\* the MA_OUT input of latch_top; "keep" when no case of the match applies
TopMaOut(dp, instruction) ==
    LET cur == dp.cur_tick_regs_state
        op == instruction.opcode
        isn == dp.instruction_stage_number
    IN CASE op \in {"put", "put absolute"} -> Mem(dp, Num(cur.od_shp))
         [] op = "pick" -> Mem(dp, PySub(PySub(Num(cur.od_shp), cur.top), Num(1)))
         [] op = "pick absolute" -> Mem(dp, cur.top)
         [] op = "push to od" -> Mem(dp, Num(cur.pra_shp))
         [] op \in {"dup ret", "increment ret", "decrement ret"} ->
              CASE PyEq(isn, Num(1)) -> Mem(dp, Num(cur.pra_shp))
                [] PyEq(isn, Num(3)) -> Mem(dp, Num(cur.od_shp))
                [] OTHER -> Err
         [] op = "jmp pop pra shp" ->
              CASE PyEq(isn, Num(1)) -> Mem(dp, Num(cur.pra_shp))
                [] PyEq(isn, Num(2)) -> Mem(dp, Num(cur.od_shp))
                [] OTHER -> Err
         [] op = "read vardata" ->
              Mem(dp, PyAdd(Num(dp.var_data_start_point), ArgOf(instruction)))
         [] OTHER -> dp.top

latch_top(dp, instruction, latch_input) ==
    LET cur == dp.cur_tick_regs_state
        port_num == ArgOf(instruction)
    IN CASE latch_input = "ALU_OUT" -> SetTop(dp, AluOut(dp, instruction))
         [] latch_input = "HAS_DEVICE_FILLED_WITH_CPU" ->
              IF PortOK(dp, port_num)
              THEN SetTop(dp, Flag(dp.ports[PortSlot(dp, port_num)].filled_with_cpu))
              ELSE Raise(dp)
         [] latch_input = "HAS_PORT_FILLED_WITH_DEVICE" ->
              IF PortOK(dp, port_num)
              THEN SetTop(dp, Flag(dp.ports[PortSlot(dp, port_num)].filled_with_device))
              ELSE Raise(dp)
         [] latch_input = "NEXT" -> SetTop(dp, cur.next)
         [] latch_input = "MA_OUT" -> SetTop(dp, TopMaOut(dp, instruction))
         [] latch_input = "ARG" ->
              \* top = instruction.arg stores None as well
              [dp EXCEPT !.top = ArgValue(instruction)]
         [] latch_input = "VDSP_PLUS_TOP" ->
              SetTop(dp, PyAdd(Num(dp.var_data_start_point), cur.top))
         [] latch_input = "PORT_VALUE" ->
              IF PortOK(dp, port_num)
              THEN SetTop(dp, dp.ports[PortSlot(dp, port_num)].data)
              ELSE Raise(dp)
         [] OTHER -> Raise(dp)

latch_next(dp, instruction, latch_input) ==
    LET cur == dp.cur_tick_regs_state
        op == instruction.opcode
    IN CASE latch_input = "TOP" -> SetNext(dp, cur.top)
         [] latch_input = "MA_MINUS_ONE_OUT" ->
              CASE op \in {"put", "put absolute"} ->
                     SetNext(dp, Mem(dp, PySub(cur.top, Num(1))))
                [] op = "push to od" -> SetNext(dp, Mem(dp, Num(cur.od_shp - 1)))
                [] op \in {"exec if", "exec cond jmp"} ->
                     SetNext(dp, Mem(dp, Num(cur.od_shp - 1 - 1)))
                [] op \in {"write vardata", "write port"} ->
                     SetNext(dp, Mem(dp, Num(cur.od_shp - 1 - 1)))
                [] op = "pop to ret" -> SetNext(dp, Mem(dp, Num(cur.od_shp - 1)))
                [] OTHER -> Raise(dp)
         [] latch_input = "MA_OUT" ->
              CASE op \in BinaryAlu -> SetNext(dp, Mem(dp, Num(cur.od_shp - 2)))
                [] op = "shift back" -> SetNext(dp, Mem(dp, Num(cur.od_shp - 1)))
                [] OTHER -> dp
         [] OTHER -> Raise(dp)

\* a variant whose first tick of SWAP stores the register TOP, not its snapshot
top_latch_on_memory_data_of_latched_top(dp, instruction) ==
    LET cur == dp.cur_tick_regs_state
        op == instruction.opcode
        isn == dp.instruction_stage_number
    IN CASE op \in BinaryAlu -> MemWrite(dp, Num(cur.od_shp), cur.top)
         [] op \in {"pick", "pick absolute"} -> MemWrite(dp, Num(cur.od_shp), cur.top)
         [] op = "swap" ->
              CASE PyEq(isn, Num(1)) -> MemWrite(dp, Num(cur.od_shp - 1), dp.top)
                [] PyEq(isn, Num(2)) -> MemWrite(dp, Num(cur.od_shp), cur.top)
                [] OTHER -> dp
         [] op = "pop to ret" -> MemWrite(dp, Num(cur.pra_shp - 1), cur.top)
         [] op = "push to od" -> MemWrite(dp, Num(cur.od_shp), cur.top)
         [] op = "dup ret" -> MemWrite(dp, Num(cur.pra_shp + 1), cur.top)
         [] op = "dup" -> MemWrite(dp, Num(cur.od_shp + 1), cur.top)
         [] op = "dudup" -> MemWrite(dp, Num(cur.od_shp + 1), cur.top)
         [] op = "eq not consuming ret" -> MemWrite(dp, Num(cur.pra_shp), cur.top)
         [] op = "write vardata" ->
              MemWrite(dp, PyAdd(Num(dp.var_data_start_point), ArgOf(instruction)), cur.top)
         [] op = "read vardata" -> MemWrite(dp, Num(cur.od_shp + 1), cur.top)
         [] OTHER -> Raise(dp)

top_latch_on_memory_data(dp, instruction) ==
    LET cur == dp.cur_tick_regs_state
        op == instruction.opcode
        isn == dp.instruction_stage_number
    IN CASE op \in BinaryAlu -> MemWrite(dp, Num(cur.od_shp), cur.top)
         [] op \in {"pick", "pick absolute"} -> MemWrite(dp, Num(cur.od_shp), cur.top)
         [] op = "swap" ->
              CASE PyEq(isn, Num(1)) -> MemWrite(dp, Num(cur.od_shp - 1), cur.top)
                [] PyEq(isn, Num(2)) -> MemWrite(dp, Num(cur.od_shp), cur.top)
                [] OTHER -> dp
         [] op = "pop to ret" -> MemWrite(dp, Num(cur.pra_shp - 1), cur.top)
         [] op = "push to od" -> MemWrite(dp, Num(cur.od_shp), cur.top)
         [] op = "dup ret" -> MemWrite(dp, Num(cur.pra_shp + 1), cur.top)
         [] op = "dup" -> MemWrite(dp, Num(cur.od_shp + 1), cur.top)
         [] op = "dudup" -> MemWrite(dp, Num(cur.od_shp + 1), cur.top)
         [] op = "eq not consuming ret" -> MemWrite(dp, Num(cur.pra_shp), cur.top)
         [] op = "write vardata" ->
              MemWrite(dp, PyAdd(Num(dp.var_data_start_point), ArgOf(instruction)), cur.top)
         [] op = "read vardata" -> MemWrite(dp, Num(cur.od_shp + 1), cur.top)
         [] OTHER -> Raise(dp)

next_latch_on_memory_data(dp, instruction) ==
    LET cur == dp.cur_tick_regs_state
        op == instruction.opcode
    IN CASE op = "put" ->
              MemWrite(dp, PySub(PySub(Num(cur.od_shp), cur.top), Num(2)), cur.next)
         [] op = "put absolute" -> MemWrite(dp, cur.top, cur.next)
         [] op = "dudup" -> MemWrite(dp, Num(cur.od_shp + 1), cur.next)
         [] OTHER -> Raise(dp)

port_latch_on_memory_data(dp, instruction, latch_input) ==
    LET cur == dp.cur_tick_regs_state
        port_num == ArgOf(instruction)
    IN IF ~PortOK(dp, port_num) THEN Raise(dp)
       ELSE LET port == dp.ports[PortSlot(dp, port_num)]
            IN CASE latch_input = "HAS_DEVICE_FILLED_WITH_CPU" ->
                      MemWrite(dp, Num(cur.od_shp + 1), Flag(port.filled_with_cpu))
                 [] latch_input = "HAS_PORT_FILLED_WITH_DEVICE" ->
                      MemWrite(dp, Num(cur.od_shp + 1), Flag(port.filled_with_cpu))
                 [] latch_input = "PORT_VALUE" ->
                      MemWrite(dp, Num(cur.od_shp + 1), port.data)
                 [] OTHER -> Raise(dp)

\* a variant whose IP_PLUS_TWO input saves the address of the call's JMP
latch_memory_data_saves_ip_plus_one(dp, instruction, latch_input) ==
    LET cur == dp.cur_tick_regs_state
        op == instruction.opcode
    IN CASE latch_input \in {"HAS_PORT_FILLED_WITH_DEVICE", "HAS_DEVICE_FILLED_WITH_CPU",
                             "PORT_VALUE"} ->
              port_latch_on_memory_data(dp, instruction, latch_input)
         [] latch_input = "ARG" -> MemWrite(dp, Num(cur.od_shp + 1), ArgValue(instruction))
         [] latch_input = "TOP" -> top_latch_on_memory_data(dp, instruction)
         [] latch_input = "NEXT" -> next_latch_on_memory_data(dp, instruction)
         [] latch_input = "ALU_OUT" ->
              CASE op = "increment ret" ->
                     MemWrite(dp, Num(cur.pra_shp), PyAdd(cur.top, Num(1)))
                [] op = "decrement ret" ->
                     MemWrite(dp, Num(cur.pra_shp), PySub(cur.top, Num(1)))
                [] OTHER -> Raise(dp)
         [] latch_input = "IP_PLUS_TWO" ->
              MemWrite(dp, Num(cur.pra_shp - 1), PyAdd(cur.ip, Num(1)))
         [] latch_input = "VDSP_PLUS_TOP" ->
              MemWrite(dp, Num(cur.od_shp), PyAdd(Num(dp.var_data_start_point), cur.top))
         [] OTHER -> Raise(dp)

latch_memory_data(dp, instruction, latch_input) ==
    LET cur == dp.cur_tick_regs_state
        op == instruction.opcode
    IN CASE latch_input \in {"HAS_PORT_FILLED_WITH_DEVICE", "HAS_DEVICE_FILLED_WITH_CPU",
                             "PORT_VALUE"} ->
              port_latch_on_memory_data(dp, instruction, latch_input)
         [] latch_input = "ARG" -> MemWrite(dp, Num(cur.od_shp + 1), ArgValue(instruction))
         [] latch_input = "TOP" -> top_latch_on_memory_data(dp, instruction)
         [] latch_input = "NEXT" -> next_latch_on_memory_data(dp, instruction)
         [] latch_input = "ALU_OUT" ->
              CASE op = "increment ret" ->
                     MemWrite(dp, Num(cur.pra_shp), PyAdd(cur.top, Num(1)))
                [] op = "decrement ret" ->
                     MemWrite(dp, Num(cur.pra_shp), PySub(cur.top, Num(1)))
                [] OTHER -> Raise(dp)
         [] latch_input = "IP_PLUS_TWO" ->
              MemWrite(dp, Num(cur.pra_shp - 1), PyAdd(cur.ip, Num(2)))
         [] latch_input = "VDSP_PLUS_TOP" ->
              MemWrite(dp, Num(cur.od_shp), PyAdd(Num(dp.var_data_start_point), cur.top))
         [] OTHER -> Raise(dp)

signal_increment_instruction_stage_number(dp) ==
    LET isn == PyAdd(dp.instruction_stage_number, Num(1))
    IN IF isn.k = "err" THEN Raise(dp) ELSE [dp EXCEPT !.instruction_stage_number = isn]

\* a variant that leaves the stage number where the last tick put it
signal_reset_instruction_stage_number_keeps(dp) ==
    dp

signal_reset_instruction_stage_number(dp) ==
    [dp EXCEPT !.instruction_stage_number = Num(1)]

latch_port_flags(dp, instruction, latch_input) ==
    LET port_number == ArgOf(instruction)
        op == instruction.opcode
    IN CASE op = "write port" /\ latch_input = "TRUE" /\ PortOK(dp, port_number) ->
              [dp EXCEPT !.ports[PortSlot(dp, port_number)].filled_with_cpu = TRUE]
         [] op = "read port" /\ latch_input = "FALSE" /\ PortOK(dp, port_number) ->
              [dp EXCEPT !.ports[PortSlot(dp, port_number)].filled_with_device = FALSE]
         [] OTHER -> Raise(dp)

\* a variant that latches NEXT into the port
latch_port_value_from_next(dp, instruction, latch_input) ==
    LET port_number == ArgOf(instruction)
    IN IF instruction.opcode = "write port" /\ latch_input = "TOP" /\ PortOK(dp, port_number)
       THEN [dp EXCEPT !.ports[PortSlot(dp, port_number)].data =
                           dp.cur_tick_regs_state.next]
       ELSE Raise(dp)

latch_port_value(dp, instruction, latch_input) ==
    LET port_number == ArgOf(instruction)
        op == instruction.opcode
    IN IF op = "write port" /\ latch_input = "TOP" /\ PortOK(dp, port_number)
       THEN [dp EXCEPT !.ports[PortSlot(dp, port_number)].data =
                           dp.cur_tick_regs_state.top]
       ELSE Raise(dp)

(***************************************************************************)
(* ControlUnit.  Each *_exec function chooses, from the opcode and the     *)
(* stage number, the latches of the tick in the order the code calls them, *)
(* and says whether the tick is the instruction's last one.  A latch is a  *)
(* pair <<unit, input>>.                                                   *)
(***************************************************************************)
Micro(latches, last) == [latches |-> latches, last |-> last, raised |-> FALSE]

\* raise "fatal exception"
Fatal == [latches |-> <<>>, last |-> FALSE, raised |-> TRUE]

\* the value the match statements on instruction_stage_number compare with
\* their literals; 0 matches none of them
Stage(dp) ==
    IF IsNum(dp.instruction_stage_number) THEN dp.instruction_stage_number.arg ELSE 0

full_data_instractions_exec(instruction, stage) ==
    LET op == instruction.opcode
    IN CASE op = "number" ->
              Micro(<< <<"next", "TOP">>, <<"memory_data", "ARG">>, <<"top", "ARG">>,
                       <<"od_shp", "OD_SHP_INC">>, <<"ip", "IP_INC">> >>, TRUE)
         [] op \in BinaryAlu ->
              CASE stage = 1 ->
                     Micro(<< <<"top", "ALU_OUT">>, <<"next", "MA_OUT">>,
                              <<"od_shp", "OD_SHP_DEC">> >>, FALSE)
                [] stage = 2 ->
                     Micro(<< <<"memory_data", "TOP">>, <<"ip", "IP_INC">> >>, TRUE)
                [] OTHER -> Fatal
         [] op = "shift back" ->
              Micro(<< <<"top", "NEXT">>, <<"next", "MA_OUT">>,
                       <<"od_shp", "OD_SHP_DEC">>, <<"ip", "IP_INC">> >>, TRUE)
         [] op \in {"put", "put absolute"} ->
              CASE stage = 1 ->
                     Micro(<< <<"memory_data", "NEXT">>,
                              <<"od_shp", "OD_SHP_MINUS_TWO">> >>, FALSE)
                [] stage = 2 ->
                     Micro(<< <<"top", "MA_OUT">>, <<"next", "MA_MINUS_ONE_OUT">>,
                              <<"ip", "IP_INC">> >>, TRUE)
                [] OTHER -> Fatal
         [] op \in {"pick", "pick absolute"} ->
              CASE stage = 1 -> Micro(<< <<"top", "MA_OUT">> >>, FALSE)
                [] stage = 2 ->
                     Micro(<< <<"memory_data", "TOP">>, <<"ip", "IP_INC">> >>, TRUE)
                [] OTHER -> Fatal
         [] op = "swap" ->
              CASE stage = 1 ->
                     Micro(<< <<"next", "TOP">>, <<"top", "NEXT">>,
                              <<"memory_data", "TOP">> >>, FALSE)
                [] stage = 2 ->
                     Micro(<< <<"memory_data", "TOP">>, <<"ip", "IP_INC">> >>, TRUE)
                [] OTHER -> Fatal
         [] OTHER -> Fatal

pra_maniputation_instractions_exec(instruction, stage) ==
    LET op == instruction.opcode
    IN CASE op = "push inc inc ip to pra shp" ->
              Micro(<< <<"memory_data", "IP_PLUS_TWO">>, <<"pra_shp", "PRA_SHP_DEC">>,
                       <<"ip", "IP_INC">> >>, TRUE)
         [] op \in {"increment ret", "decrement ret"} ->
              CASE stage = 1 -> Micro(<< <<"top", "MA_OUT">> >>, FALSE)
                [] stage = 2 -> Micro(<< <<"memory_data", "ALU_OUT">> >>, FALSE)
                [] stage = 3 -> Micro(<< <<"top", "MA_OUT">>, <<"ip", "IP_INC">> >>, TRUE)
                [] OTHER -> Fatal
         [] op = "eq not consuming ret" ->
              CASE stage = 1 ->
                     Micro(<< <<"top", "ALU_OUT">>, <<"pra_shp", "PRA_SHP_DEC">> >>, FALSE)
                [] stage = 2 -> Micro(<< <<"memory_data", "TOP">> >>, FALSE)
                [] stage = 3 -> Micro(<< <<"top", "MA_OUT">>, <<"ip", "IP_INC">> >>, TRUE)
                [] OTHER -> Fatal
         [] op = "pop to ret" ->
              CASE stage = 1 ->
                     Micro(<< <<"memory_data", "TOP">>, <<"pra_shp", "PRA_SHP_DEC">>,
                              <<"top", "NEXT">>, <<"od_shp", "OD_SHP_DEC">> >>, FALSE)
                [] stage = 2 ->
                     Micro(<< <<"next", "MA_MINUS_ONE_OUT">>, <<"ip", "IP_INC">> >>, TRUE)
                [] OTHER -> Fatal
         [] op = "push to od" ->
              CASE stage = 1 ->
                     Micro(<< <<"top", "MA_OUT">>, <<"od_shp", "OD_SHP_INC">> >>, FALSE)
                [] stage = 2 -> Micro(<< <<"memory_data", "TOP">> >>, FALSE)
                [] stage = 3 ->
                     Micro(<< <<"next", "MA_MINUS_ONE_OUT">>, <<"ip", "IP_INC">> >>, TRUE)
                [] OTHER -> Fatal
         [] op = "shift back ret" ->
              Micro(<< <<"pra_shp", "PRA_SHP_INC">>, <<"ip", "IP_INC">> >>, TRUE)
         [] OTHER -> Fatal

port_instructions_exec(instruction, stage) ==
    LET op == instruction.opcode
    IN CASE op = "read port" ->
              Micro(<< <<"next", "TOP">>, <<"top", "PORT_VALUE">>,
                       <<"memory_data", "PORT_VALUE">>, <<"port_flags", "FALSE">>,
                       <<"od_shp", "OD_SHP_INC">>, <<"ip", "IP_INC">> >>, TRUE)
         [] op = "write port" ->
              Micro(<< <<"port_value", "TOP">>, <<"top", "NEXT">>,
                       <<"next", "MA_MINUS_ONE_OUT">>, <<"port_flags", "TRUE">>,
                       <<"od_shp", "OD_SHP_DEC">>, <<"ip", "IP_INC">> >>, TRUE)
         [] op = "has port filled with cpu" ->
              Micro(<< <<"next", "TOP">>, <<"memory_data", "HAS_DEVICE_FILLED_WITH_CPU">>,
                       <<"top", "HAS_DEVICE_FILLED_WITH_CPU">>,
                       <<"od_shp", "OD_SHP_INC">>, <<"ip", "IP_INC">> >>, TRUE)
         [] op = "has port filled with device" ->
              Micro(<< <<"next", "TOP">>, <<"memory_data", "HAS_PORT_FILLED_WITH_DEVICE">>,
                       <<"top", "HAS_PORT_FILLED_WITH_DEVICE">>,
                       <<"od_shp", "OD_SHP_INC">>, <<"ip", "IP_INC">> >>, TRUE)
         [] OTHER -> Fatal

\* a variant whose SUM_TOP_WITH_VDSP latches in a second tick
vardata_instructions_exec_sum_in_two_ticks(instruction, stage) ==
    LET op == instruction.opcode
    IN CASE op = "read vardata" ->
              CASE stage = 1 -> Micro(<< <<"next", "TOP">>, <<"top", "MA_OUT">> >>, FALSE)
                [] stage = 2 ->
                     Micro(<< <<"memory_data", "TOP">>, <<"od_shp", "OD_SHP_INC">>,
                              <<"ip", "IP_INC">> >>, TRUE)
                [] OTHER -> Micro(<<>>, FALSE)
         [] op = "write vardata" ->
              CASE stage = 1 ->
                     Micro(<< <<"memory_data", "TOP">>, <<"top", "NEXT">> >>, FALSE)
                [] stage = 2 ->
                     Micro(<< <<"next", "MA_MINUS_ONE_OUT">>, <<"od_shp", "OD_SHP_DEC">>,
                              <<"ip", "IP_INC">> >>, TRUE)
                [] OTHER -> Micro(<<>>, FALSE)
         [] op = "sum top with vdsp" ->
              CASE stage = 1 -> Micro(<<>>, FALSE)
                [] OTHER ->
                     Micro(<< <<"top", "VDSP_PLUS_TOP">>, <<"memory_data", "VDSP_PLUS_TOP">>,
                              <<"ip", "IP_INC">> >>, TRUE)
         [] OTHER -> Fatal

vardata_instructions_exec(instruction, stage) ==
    LET op == instruction.opcode
    IN CASE op = "read vardata" ->
              CASE stage = 1 -> Micro(<< <<"next", "TOP">>, <<"top", "MA_OUT">> >>, FALSE)
                [] stage = 2 ->
                     Micro(<< <<"memory_data", "TOP">>, <<"od_shp", "OD_SHP_INC">>,
                              <<"ip", "IP_INC">> >>, TRUE)
                [] OTHER -> Micro(<<>>, FALSE)
         [] op = "write vardata" ->
              CASE stage = 1 ->
                     Micro(<< <<"memory_data", "TOP">>, <<"top", "NEXT">> >>, FALSE)
                [] stage = 2 ->
                     Micro(<< <<"next", "MA_MINUS_ONE_OUT">>, <<"od_shp", "OD_SHP_DEC">>,
                              <<"ip", "IP_INC">> >>, TRUE)
                [] OTHER -> Micro(<<>>, FALSE)
         [] op = "sum top with vdsp" ->
              Micro(<< <<"top", "VDSP_PLUS_TOP">>, <<"memory_data", "VDSP_PLUS_TOP">>,
                       <<"ip", "IP_INC">> >>, TRUE)
         [] OTHER -> Fatal

\* a variant whose DUDUP ends after its first tick
dup_instructions_exec_dudup_in_one_tick(instruction, stage) ==
    LET op == instruction.opcode
    IN CASE op = "dup ret" ->
              CASE stage = 1 -> Micro(<< <<"top", "MA_OUT">> >>, FALSE)
                [] stage = 2 ->
                     Micro(<< <<"memory_data", "TOP">>, <<"pra_shp", "PRA_SHP_INC">> >>, FALSE)
                [] stage = 3 -> Micro(<< <<"top", "MA_OUT">>, <<"ip", "IP_INC">> >>, TRUE)
                [] OTHER -> Fatal
         [] op = "dup" ->
              Micro(<< <<"next", "TOP">>, <<"memory_data", "TOP">>,
                       <<"od_shp", "OD_SHP_INC">>, <<"ip", "IP_INC">> >>, TRUE)
         [] op = "dudup" ->
              CASE stage = 1 ->
                     Micro(<< <<"memory_data", "NEXT">>, <<"od_shp", "OD_SHP_INC">>,
                              <<"ip", "IP_INC">> >>, TRUE)
                [] stage = 2 ->
                     Micro(<< <<"memory_data", "TOP">>, <<"od_shp", "OD_SHP_INC">>,
                              <<"ip", "IP_INC">> >>, TRUE)
                [] OTHER -> Fatal
         [] OTHER -> Fatal

dup_instructions_exec(instruction, stage) ==
    LET op == instruction.opcode
    IN CASE op = "dup ret" ->
              CASE stage = 1 -> Micro(<< <<"top", "MA_OUT">> >>, FALSE)
                [] stage = 2 ->
                     Micro(<< <<"memory_data", "TOP">>, <<"pra_shp", "PRA_SHP_INC">> >>, FALSE)
                [] stage = 3 -> Micro(<< <<"top", "MA_OUT">>, <<"ip", "IP_INC">> >>, TRUE)
                [] OTHER -> Fatal
         [] op = "dup" ->
              Micro(<< <<"next", "TOP">>, <<"memory_data", "TOP">>,
                       <<"od_shp", "OD_SHP_INC">>, <<"ip", "IP_INC">> >>, TRUE)
         [] op = "dudup" ->
              CASE stage = 1 ->
                     Micro(<< <<"memory_data", "NEXT">>, <<"od_shp", "OD_SHP_INC">> >>, FALSE)
                [] stage = 2 ->
                     Micro(<< <<"memory_data", "TOP">>, <<"od_shp", "OD_SHP_INC">>,
                              <<"ip", "IP_INC">> >>, TRUE)
                [] OTHER -> Fatal
         [] OTHER -> Fatal

ip_changing_instructions_exec(instruction, stage) ==
    LET op == instruction.opcode
    IN CASE op = "jmp" -> Micro(<< <<"ip", "IP_PLUS_ARG">> >>, TRUE)
         [] op \in {"exec if", "exec cond jmp"} ->
              Micro(<< <<"next", "MA_MINUS_ONE_OUT">>, <<"ip", "IP_CONV_SIG_SUM_INC">>,
                       <<"top", "NEXT">>, <<"od_shp", "OD_SHP_DEC">> >>, TRUE)
         [] op = "exec cond jmp ret" ->
              Micro(<< <<"ip", "IP_CONV_SIG_SUM_INC">>, <<"pra_shp", "PRA_SHP_INC">> >>, TRUE)
         [] op = "jmp pop pra shp" ->
              CASE stage = 1 ->
                     Micro(<< <<"top", "MA_OUT">>, <<"pra_shp", "PRA_SHP_INC">> >>, FALSE)
                [] stage = 2 -> Micro(<< <<"ip", "TOP">>, <<"top", "MA_OUT">> >>, TRUE)
                [] OTHER -> Fatal
         [] OTHER -> Fatal

\* the match on the opcode in next_tick_execute
Decode(instruction, stage) ==
    LET op == instruction.opcode
    IN CASE op \in {"dup ret", "dup", "dudup"} -> dup_instructions_exec(instruction, stage)
         [] op \in {"jmp", "jmp pop pra shp", "exec if", "exec cond jmp ret",
                    "exec cond jmp"} -> ip_changing_instructions_exec(instruction, stage)
         [] op \in BinaryAlu \cup {"number", "shift back", "put", "put absolute", "pick",
                                   "pick absolute", "swap"} ->
              full_data_instractions_exec(instruction, stage)
         [] op \in {"push inc inc ip to pra shp", "increment ret", "decrement ret",
                    "eq not consuming ret", "pop to ret", "push to od", "shift back ret"} ->
              pra_maniputation_instractions_exec(instruction, stage)
         [] op \in {"read port", "write port", "has port filled with cpu",
                    "has port filled with device"} ->
              port_instructions_exec(instruction, stage)
         [] op \in {"read vardata", "write vardata", "sum top with vdsp"} ->
              vardata_instructions_exec(instruction, stage)
         [] OTHER -> Fatal

\* one call self.data_path.latch_<unit>(instruction, input)
ApplyLatch(dp, instruction, latch) ==
    LET unit == latch[1]
        latch_input == latch[2]
    IN CASE dp.raised -> dp
         [] unit = "ip" -> latch_ip(dp, instruction, latch_input)
         [] unit = "od_shp" -> latch_od_shp(dp, instruction, latch_input)
         [] unit = "pra_shp" -> latch_pra_shp(dp, instruction, latch_input)
         [] unit = "top" -> latch_top(dp, instruction, latch_input)
         [] unit = "next" -> latch_next(dp, instruction, latch_input)
         [] unit = "memory_data" -> latch_memory_data(dp, instruction, latch_input)
         [] unit = "port_flags" -> latch_port_flags(dp, instruction, latch_input)
         [] unit = "port_value" -> latch_port_value(dp, instruction, latch_input)
         [] OTHER -> Raise(dp)

\* the latch calls of one tick, one after the other
RECURSIVE ApplyLatches(_, _, _)
ApplyLatches(dp, instruction, latches) ==
    IF latches = <<>> THEN dp
    ELSE ApplyLatches(ApplyLatch(dp, instruction, Head(latches)), instruction, Tail(latches))

\* A control unit is a record of is_in_interruption, ticks_counter and
\* instructions_counter.  The result of next_tick_execute is the data path
\* and the control unit it leaves, and whether it raised StopIteration
\* (another exception leaves dp.raised set).
\* a variant that restores the instruction pointer and leaves the stage number
halt_exec_keeps_stage(saved, cu) ==
    IF ~cu.is_in_interruption
    THEN [dp |-> saved, cu |-> cu, stop |-> TRUE]
    ELSE LET ip == Mem(saved, Num(saved.pra_shp_pointer + 1))
         IN IF ip.k = "err"
            THEN [dp |-> Raise(saved), cu |-> cu, stop |-> FALSE]
            ELSE [dp |-> [saved EXCEPT !.instruction_pointer = ip,
                                       !.pra_shp_pointer = @ + 2],
                  cu |-> [cu EXCEPT !.ticks_counter = @ + 1,
                                    !.is_in_interruption = FALSE],
                  stop |-> FALSE]

\* case Opcode.HALT of next_tick_execute, once the registers are saved
halt_exec(saved, cu) ==
    IF ~cu.is_in_interruption
    THEN [dp |-> saved, cu |-> cu, stop |-> TRUE]
    ELSE LET isn == Mem(saved, Num(saved.pra_shp_pointer))
             ip == Mem(saved, Num(saved.pra_shp_pointer + 1))
         IN IF isn.k = "err"
            THEN [dp |-> Raise(saved), cu |-> cu, stop |-> FALSE]
            ELSE IF ip.k = "err"
            THEN [dp |-> Raise([saved EXCEPT !.instruction_stage_number = isn,
                                             !.pra_shp_pointer = @ + 1]),
                  cu |-> cu, stop |-> FALSE]
            ELSE [dp |-> [saved EXCEPT !.instruction_stage_number = isn,
                                       !.instruction_pointer = ip,
                                       !.pra_shp_pointer = @ + 2],
                  cu |-> [cu EXCEPT !.ticks_counter = @ + 1,
                                    !.is_in_interruption = FALSE],
                  stop |-> FALSE]

next_tick_execute(dp, cu) ==
    LET instruction == Mem(dp, dp.instruction_pointer)
        saved == [dp EXCEPT !.cur_tick_regs_state =
                     RegsState(dp.instruction_pointer, dp.od_sh_pointer,
                               dp.pra_shp_pointer, dp.top, dp.next)]
        micro == Decode(instruction, Stage(saved))
        latched == ApplyLatches(saved, instruction, micro.latches)
        ticked == [cu EXCEPT !.ticks_counter = @ + 1]
    IN IF instruction.k = "err" THEN [dp |-> Raise(dp), cu |-> cu, stop |-> FALSE]
       ELSE IF instruction.k # "ins" THEN [dp |-> Raise(saved), cu |-> cu, stop |-> FALSE]
       ELSE IF instruction.opcode = "halt" THEN halt_exec(saved, cu)
       ELSE IF micro.raised THEN [dp |-> Raise(saved), cu |-> cu, stop |-> FALSE]
       ELSE IF latched.raised THEN [dp |-> latched, cu |-> cu, stop |-> FALSE]
       ELSE IF micro.last
       THEN [dp |-> signal_reset_instruction_stage_number(latched),
             cu |-> [ticked EXCEPT !.instructions_counter = @ + 1],
             stop |-> FALSE]
       ELSE [dp |-> signal_increment_instruction_stage_number(latched),
             cu |-> ticked, stop |-> FALSE]

\* a variant that leaves the stage number of the interrupted instruction
step_in_port_interruption_keeps_stage(dp, port_number, is_write_interruption) ==
    LET handler_start_pc ==
            IF is_write_interruption
            THEN Mem(dp, Num(2 * port_number))
            ELSE Mem(dp, Num(2 * port_number + 1))
        tick1 == MemWrite([dp EXCEPT !.pra_shp_pointer = @ - 1],
                          Num(dp.pra_shp_pointer - 1), dp.instruction_pointer)
        tick2 == MemWrite([tick1 EXCEPT !.instruction_pointer = handler_start_pc,
                                        !.pra_shp_pointer = @ - 1],
                          Num(tick1.pra_shp_pointer - 1), tick1.instruction_stage_number)
    IN IF handler_start_pc.k = "err" \/ tick1.raised \/ tick2.raised
       THEN Raise(dp) ELSE tick2

step_in_port_interruption(dp, port_number, is_write_interruption) ==
    LET port_interruption_memory_index == 2 * port_number
        handler_start_pc ==
            IF is_write_interruption
            THEN Mem(dp, Num(port_interruption_memory_index))
            ELSE Mem(dp, Num(port_interruption_memory_index + 1))
        \* tick 1
        tick1 == MemWrite([dp EXCEPT !.pra_shp_pointer = @ - 1],
                          Num(dp.pra_shp_pointer - 1), dp.instruction_pointer)
        \* tick 2
        tick2 == MemWrite([tick1 EXCEPT !.instruction_pointer = handler_start_pc,
                                        !.pra_shp_pointer = @ - 1],
                          Num(tick1.pra_shp_pointer - 1), tick1.instruction_stage_number)
    IN IF handler_start_pc.k = "err" THEN Raise(dp)
       ELSE IF tick1.raised THEN tick1
       ELSE IF tick2.raised THEN tick2
       ELSE [tick2 EXCEPT !.instruction_stage_number = Num(1)]

(***************************************************************************)
(* DataPath.__init__: the memory image.  ports_description is a sequence   *)
(* of records of interrupt_code_on_write and interrupt_code_on_read.       *)
(***************************************************************************)
\* the handler code of the first n ports, in the order write_code stores it
RECURSIVE HandlersCode(_, _)
HandlersCode(ports_description, n) ==
    IF n = 0 THEN <<>>
    ELSE HandlersCode(ports_description, n - 1)
           \o ports_description[n].interrupt_code_on_write
           \o ports_description[n].interrupt_code_on_read

\* a variant that gives the read handler the start of the write handler
ProcedurePoint_of_write_handler(ports_description, i) ==
    2 * Len(ports_description) + Len(HandlersCode(ports_description, i \div 2))

\* procedures_points_table[i], i counted from 0
ProcedurePoint(ports_description, i) ==
    LET port == (i \div 2) + 1
        before == 2 * Len(ports_description) + Len(HandlersCode(ports_description, port - 1))
    IN IF i % 2 = 0 THEN before
       ELSE before + Len(ports_description[port].interrupt_code_on_write)

DataPathInit(memory_size, var_memory_size, ports_description, program) ==
    LET table_size == 2 * Len(ports_description)
        handlers == HandlersCode(ports_description, Len(ports_description))
        var_data_start_point == table_size + Len(handlers)
        instruction_pointer == var_data_start_point + var_memory_size
        od_stack_start == instruction_pointer + Len(program)
        Cell(a) ==
            CASE a < table_size -> Num(ProcedurePoint(ports_description, a))
              [] a >= table_size /\ a < var_data_start_point ->
                   [handlers[a - table_size + 1] EXCEPT !.id = a]
              [] a >= instruction_pointer /\ a < od_stack_start ->
                   [program[a - instruction_pointer + 1] EXCEPT !.id = a]
              [] OTHER -> Num(0)
    IN [data_memory |-> [i \in 1..memory_size |-> Cell(i - 1)],
        instruction_pointer |-> Num(instruction_pointer),
        top |-> NoneStr,
        next |-> NoneStr,
        pra_shp_pointer |-> memory_size - 1,
        od_stack_start |-> od_stack_start,
        od_sh_pointer |-> od_stack_start,
        instruction_stage_number |-> Num(1),
        ports |-> [i \in 1..Len(ports_description) |-> Port],
        var_data_start_point |-> var_data_start_point,
        cur_tick_regs_state |-> RegsState(Num(0), 0, 0, NoneStr, NoneStr),
        raised |-> FALSE]

ControlUnit == [is_in_interruption |-> FALSE, ticks_counter |-> 0, instructions_counter |-> 0]

(***************************************************************************)
(* The inputs of simulation(): programs, handlers and input schedules.     *)
(***************************************************************************)
\* var_memory_size handed to simulation()
VarMemorySize == 1
\* an input schedule holds at most MaxInputTokens entries
MaxInputTokens == 2
\* ord() of the character the device delivers
InputChar == 65

main_port_number == 0

Halt == InstructionNoArg("halt")

MainPrograms ==
    { \* emits 13 and 66
      << Instruction("number", 13), Instruction("write port", 0),
         Instruction("number", 66), Instruction("write port", 0), Halt >>,
      \* opcodes of one, two and three ticks
      << Instruction("number", 2), InstructionNoArg("pop to ret"),
         InstructionNoArg("increment ret"), InstructionNoArg("shift back ret"), Halt >>,
      \* never halts
      << Instruction("jmp", 0), Halt >>,
      \* emits a value that is no code point
      << Instruction("number", -1), Instruction("write port", 0), Halt >>,
      \* adds a number to the string the registers start with
      << Instruction("number", 2), InstructionNoArg("sum"), Halt >> }

Handlers ==
    { << Halt >>,
      << Instruction("number", 67), Instruction("write port", 0), Halt >>,
      << Instruction("read port", 0), Instruction("write vardata", 0), Halt >> }

PortsDescriptions ==
    { << [interrupt_code_on_write |-> w, interrupt_code_on_read |-> r] >> :
        w \in Handlers, r \in Handlers }

\* READ_PORT 0; WRITE_VARDATA 0; HALT: a handler that pushes the character
\* and pops it into a variable
StackHandler ==
    << Instruction("read port", 0), Instruction("write vardata", 0), Halt >>

\* both handlers of the port are StackHandler, so that a dispatch runs it
\* whichever of the two it takes
StackPorts ==
    << [interrupt_code_on_write |-> StackHandler, interrupt_code_on_read |-> StackHandler] >>

\* one character, arriving at any tick up to MaxArrivalTick
MaxArrivalTick == 34
ArrivalSchedules == { (t :> InputChar) : t \in 0..MaxArrivalTick }

\* a machine of two ports: the handlers of the second port are stored after
\* those of the first
TwoPortsDescriptions ==
    { << [interrupt_code_on_write |-> << Halt >>,
          interrupt_code_on_read |-> << Instruction("read port", 0),
                                        Instruction("write vardata", 0), Halt >>],
         [interrupt_code_on_write |-> << Instruction("number", 67),
                                         Instruction("write port", 0), Halt >>,
          interrupt_code_on_read |-> << Halt >>] >> }

\* trimmed_input_tokens: a dict from tick index to character code
InputSchedules ==
    UNION { [ticks -> {InputChar}] :
              ticks \in { t \in SUBSET (0..MaxInputTick) : Cardinality(t) <= MaxInputTokens } }

TicksLimits == { MaxTicksLimit \div 3, MaxTicksLimit }

(***************************************************************************)
(* translator.py.  A term is the record of what the is_* predicates of the *)
(* translator read from its name: kind "number" (is_correct_number, the    *)
(* value in value), "sign" (is_sign_word or is_comparator_word), "word"    *)
(* (is_user_word), ":" (a word definition ":name"), ";" , and "!", "?",    *)
(* "&", "-" (is_variable_operation: name!, name?, name&, name-size).       *)
(* A token none of the predicates accepts has kind "unknown".              *)
(* The sources modelled hold no string literal and no print_string, the    *)
(* terms replace_complex_terms rewrites.                                   *)
(***************************************************************************)
Term(kind, name, value) == [kind |-> kind, name |-> name, value |-> value]

NumberTerm(n) == Term("number", "", n)

WordTerm(name) == Term("word", name, 0)

SignTerm(name) == Term("sign", name, 0)

\* a variant that numbers the instructions from one
Emit_numbers_from_one(st, instruction) ==
    [st EXCEPT !.code = Append(@, [instruction EXCEPT !.id = st.pc + 1]), !.pc = @ + 1]

\* code.append(Instruction(pc, opcode, arg, term)); pc += 1.  The field id of
\* an instruction of the translator is its index
Emit(st, instruction) ==
    [st EXCEPT !.code = Append(@, [instruction EXCEPT !.id = st.pc]), !.pc = @ + 1]

\* code[at].arg = value
Patch(st, at, value) ==
    IF at >= 0 /\ at < Len(st.code)
    THEN [st EXCEPT !.code[at + 1] = [@ EXCEPT !.arg = value, !.has_arg = TRUE]]
    ELSE [st EXCEPT !.error = TRUE]

RECURSIVE PatchAll_past_target(_, _, _)
\* a variant that sends every leave two instructions further
PatchAll_past_target(st, leaves, target) ==
    IF leaves = <<>> THEN st
    ELSE PatchAll_past_target(Patch(st, Head(leaves), target - Head(leaves) + 2),
                              Tail(leaves), target)

RECURSIVE PatchAll(_, _, _)
\* for leave_pc in leaves: code[leave_pc].arg = target - leave_pc
PatchAll(st, leaves, target) ==
    IF leaves = <<>> THEN st
    ELSE PatchAll(Patch(st, Head(leaves), target - Head(leaves)), Tail(leaves), target)

\* list.pop() of the last element
Pop(list) == SubSeq(list, 1, Len(list) - 1)

Last(list) == list[Len(list)]

\* a variant that counts up for loop and for mloop
exec_loop_always_increments(st, is_inc, jmp_to) ==
    LET s1 == Emit(st, InstructionNoArg("increment ret"))
        s2 == Emit(s1, InstructionNoArg("eq not consuming ret"))
        s3 == Emit(s2, Instruction("exec cond jmp ret", jmp_to - s2.pc - 1))
        s4 == Emit(s3, InstructionNoArg("shift back ret"))
    IN Emit(s4, InstructionNoArg("shift back ret"))

exec_loop(st, is_inc, jmp_to) ==
    LET s1 == Emit(st, InstructionNoArg(IF is_inc THEN "increment ret" ELSE "decrement ret"))
        s2 == Emit(s1, InstructionNoArg("eq not consuming ret"))
        s3 == Emit(s2, Instruction("exec cond jmp ret", jmp_to - s2.pc - 1))
        s4 == Emit(s3, InstructionNoArg("shift back ret"))
    IN Emit(s4, InstructionNoArg("shift back ret"))

\* a variant that leaves the bounds in the order they were pushed
do_init_exec_without_swap(st) ==
    Emit(Emit(st, InstructionNoArg("pop to ret")), InstructionNoArg("pop to ret"))

do_init_exec(st) ==
    Emit(Emit(Emit(st, InstructionNoArg("swap")),
              InstructionNoArg("pop to ret")),
         InstructionNoArg("pop to ret"))

do_index_adding_exec(st) == Emit(st, InstructionNoArg("push to od"))

emit_exec(st) == Emit(st, Instruction("write port", 0))

SignOpcode(name) ==
    CASE name = "+" -> "sum"
      [] name = "-" -> "diff"
      [] name = "*" -> "mul"
      [] name = "/" -> "div"
      [] name = "=" -> "eq"
      [] name = ">" -> "gr"
      [] name = ">=" -> "ge"
      [] name = "<" -> "less"
      [] name = "<=" -> "le"
      [] name = "<>" -> "neq"

sign_word_or_comparator_append(st, term) ==
    Emit(st, InstructionNoArg(SignOpcode(term.name)))

BuiltInWords ==
    {"mod", "put", "put_absolute", "pick", "pick_absolute", "sum_top_with_vdsp",
     "swap", "drop", "dup", "dudup"}

BuiltInOpcode(name) ==
    CASE name = "mod" -> "mod"
      [] name = "put" -> "put"
      [] name = "put_absolute" -> "put absolute"
      [] name = "pick" -> "pick"
      [] name = "pick_absolute" -> "pick absolute"
      [] name = "sum_top_with_vdsp" -> "sum top with vdsp"
      [] name = "swap" -> "swap"
      [] name = "drop" -> "shift back"
      [] name = "dup" -> "dup"
      [] name = "dudup" -> "dudup"

if_built_in_common_commands_append(st, term) ==
    Emit(st, InstructionNoArg(BuiltInOpcode(term.name)))

PortWords == {"cant_emit", "has_input", "key", "emit", "cr"}

if_port_command_append(st, term) ==
    CASE term.name = "cant_emit" -> Emit(st, Instruction("has port filled with cpu", 0))
      [] term.name = "has_input" -> Emit(st, Instruction("has port filled with device", 0))
      [] term.name = "key" -> Emit(st, Instruction("read port", 0))
      [] term.name = "emit" -> Emit(st, Instruction("write port", 0))
      [] term.name = "cr" -> emit_exec(Emit(st, Instruction("number", 13)))

OpeningWords == {"do", "doi", "begin", "if"}

if_opening_jmp_command_append(st, term) ==
    CASE term.name = "do" ->
           LET s == do_init_exec(st)
           IN [s EXCEPT !.jmp_points = Append(@, s.pc),
                        !.leaves_points = Append(@, <<>>)]
      [] term.name = "doi" ->
           LET s == do_init_exec(st)
               t == do_index_adding_exec([s EXCEPT !.jmp_points = Append(@, s.pc)])
           IN [t EXCEPT !.leaves_points = Append(@, <<>>)]
      [] term.name = "begin" ->
           [st EXCEPT !.jmp_points = Append(@, st.pc),
                      !.leaves_points = Append(@, <<>>)]
      [] term.name = "if" ->
           LET s == Emit(st, InstructionNoArg("exec if"))
           IN Emit([s EXCEPT !.jmp_points = Append(@, s.pc)], InstructionNoArg("jmp"))

MiddleWords == {"else", "leave"}

if_middle_jmp_command_append(st, term) ==
    CASE term.name = "else" ->
           IF st.jmp_points = <<>> THEN [st EXCEPT !.error = TRUE]
           ELSE LET if_false_jmp_pc == Last(st.jmp_points)
                    s == Emit([st EXCEPT !.jmp_points = Append(Pop(@), st.pc)],
                              InstructionNoArg("jmp"))
                IN Patch(s, if_false_jmp_pc, s.pc - if_false_jmp_pc)
      [] term.name = "leave" ->
           IF st.leaves_points = <<>> THEN [st EXCEPT !.error = TRUE]
           ELSE Emit([st EXCEPT !.leaves_points[Len(st.leaves_points)] = Append(@, st.pc)],
                     InstructionNoArg("jmp"))

ClosingWords == {"then", "until", "mloop", "loop"}

\* a variant whose until jumps to the second instruction of body
if_closing_jmp_command_append_until_past_begin(st, term) ==
    CASE term.name = "then" ->
           IF st.jmp_points = <<>> THEN [st EXCEPT !.error = TRUE]
           ELSE LET if_true_jmp_pc == Last(st.jmp_points)
                IN Patch([st EXCEPT !.jmp_points = Pop(@)],
                         if_true_jmp_pc, st.pc - if_true_jmp_pc)
      [] term.name = "until" ->
           LET s1 == Emit(st, Instruction("number", 0))
               s2 == Emit(s1, InstructionNoArg("neq"))
           IN IF st.jmp_points = <<>> THEN [s2 EXCEPT !.error = TRUE]
              ELSE LET begin_jmp_pc == Last(st.jmp_points)
                       s3 == Emit([s2 EXCEPT !.jmp_points = Pop(@)],
                                  Instruction("exec cond jmp", begin_jmp_pc - s2.pc))
                   IN IF s3.leaves_points = <<>> THEN [s3 EXCEPT !.error = TRUE]
                      ELSE [PatchAll(s3, Last(s3.leaves_points), s3.pc)
                              EXCEPT !.leaves_points = Pop(@)]
      [] term.name \in {"mloop", "loop"} ->
           IF st.jmp_points = <<>> THEN [st EXCEPT !.error = TRUE]
           ELSE LET do_jmp_pc == Last(st.jmp_points)
                    s == exec_loop([st EXCEPT !.jmp_points = Pop(@)],
                                   term.name = "loop", do_jmp_pc)
                IN IF s.leaves_points = <<>> THEN [s EXCEPT !.error = TRUE]
                   \* -2 to delete (from, to) from stack
                   ELSE [PatchAll(s, Last(s.leaves_points), s.pc - 2)
                           EXCEPT !.leaves_points = Pop(@)]

if_closing_jmp_command_append(st, term) ==
    CASE term.name = "then" ->
           IF st.jmp_points = <<>> THEN [st EXCEPT !.error = TRUE]
           ELSE LET if_true_jmp_pc == Last(st.jmp_points)
                IN Patch([st EXCEPT !.jmp_points = Pop(@)],
                         if_true_jmp_pc, st.pc - if_true_jmp_pc)
      [] term.name = "until" ->
           LET s1 == Emit(st, Instruction("number", 0))
               s2 == Emit(s1, InstructionNoArg("neq"))
           IN IF st.jmp_points = <<>> THEN [s2 EXCEPT !.error = TRUE]
              ELSE LET begin_jmp_pc == Last(st.jmp_points)
                       s3 == Emit([s2 EXCEPT !.jmp_points = Pop(@)],
                                  Instruction("exec cond jmp", begin_jmp_pc - s2.pc - 1))
                   IN IF s3.leaves_points = <<>> THEN [s3 EXCEPT !.error = TRUE]
                      ELSE [PatchAll(s3, Last(s3.leaves_points), s3.pc)
                              EXCEPT !.leaves_points = Pop(@)]
      [] term.name \in {"mloop", "loop"} ->
           IF st.jmp_points = <<>> THEN [st EXCEPT !.error = TRUE]
           ELSE LET do_jmp_pc == Last(st.jmp_points)
                    s == exec_loop([st EXCEPT !.jmp_points = Pop(@)],
                                   term.name = "loop", do_jmp_pc)
                IN IF s.leaves_points = <<>> THEN [s EXCEPT !.error = TRUE]
                   \* -2 to delete (from, to) from stack
                   ELSE [PatchAll(s, Last(s.leaves_points), s.pc - 2)
                           EXCEPT !.leaves_points = Pop(@)]

if_jmp_command_append(st, term) ==
    IF term.name \in OpeningWords THEN if_opening_jmp_command_append(st, term)
    ELSE IF term.name \in MiddleWords THEN if_middle_jmp_command_append(st, term)
    ELSE if_closing_jmp_command_append(st, term)

word_append(st, term) ==
    IF term.name \in BuiltInWords THEN if_built_in_common_commands_append(st, term)
    ELSE IF term.name \in PortWords THEN if_port_command_append(st, term)
    ELSE IF term.name \in OpeningWords \cup MiddleWords \cup ClosingWords
    THEN if_jmp_command_append(st, term)
    ELSE LET s == Emit(st, InstructionNoArg("push inc inc ip to pra shp"))
             pcs == IF term.name \in DOMAIN s.word_jmp_pcs
                    THEN s.word_jmp_pcs[term.name] ELSE <<>>
         IN Emit([s EXCEPT !.word_jmp_pcs =
                       (term.name :> Append(pcs, s.pc)) @@ s.word_jmp_pcs],
                 InstructionNoArg("jmp"))

\* a variant that takes the JMP over the body for the entry of the word
word_def_append_entry_at_jmp(st, term) ==
    IF term.kind = ";"
    THEN LET s == Emit(st, InstructionNoArg("jmp pop pra shp"))
         IN Patch(s, s.last_word_def_jmp_pc, s.pc - s.last_word_def_jmp_pc)
    ELSE LET s == Emit([st EXCEPT !.last_word_def_jmp_pc = st.pc], InstructionNoArg("jmp"))
         IN [s EXCEPT !.word_def_pc = (term.name :> st.pc) @@ s.word_def_pc]

\* last_word_def_jmp_pc is -1 while it is None
word_def_append(st, term) ==
    IF term.kind = ";"
    THEN LET s == Emit(st, InstructionNoArg("jmp pop pra shp"))
         IN Patch(s, s.last_word_def_jmp_pc, s.pc - s.last_word_def_jmp_pc)
    ELSE LET s == Emit([st EXCEPT !.last_word_def_jmp_pc = st.pc], InstructionNoArg("jmp"))
         IN [s EXCEPT !.word_def_pc = (term.name :> s.pc) @@ s.word_def_pc]

\* vars_pcs[variable_name].append({"pc": pc, "size": size}); vars_pcs keeps
\* the variables in the order of their first use
VarAppend(vars_pcs, variable_name, desc) ==
    IF \E i \in 1..Len(vars_pcs) : vars_pcs[i].name = variable_name
    THEN [i \in 1..Len(vars_pcs) |->
            IF vars_pcs[i].name = variable_name
            THEN [vars_pcs[i] EXCEPT !.descs = Append(@, desc)]
            ELSE vars_pcs[i]]
    ELSE Append(vars_pcs, [name |-> variable_name, descs |-> <<desc>>])

var_op_append(st, term) ==
    CASE term.kind \in {"!", "?"} ->
           Emit([st EXCEPT !.vars_pcs =
                    VarAppend(@, term.name, [pc |-> st.pc, size |-> 1])],
                InstructionNoArg(IF term.kind = "!" THEN "write vardata" ELSE "read vardata"))
      [] term.kind = "&" ->
           Emit(Emit([st EXCEPT !.vars_pcs =
                         VarAppend(@, term.name, [pc |-> st.pc, size |-> 1])],
                     InstructionNoArg("number")),
                InstructionNoArg("sum top with vdsp"))
      [] term.kind = "-" ->
           [st EXCEPT !.vars_pcs =
               VarAppend(@, term.name, [pc |-> st.pc, size |-> term.value])]

term_instruction_append(st, term) ==
    IF st.error THEN st
    ELSE CASE term.kind = "number" -> Emit(st, Instruction("number", term.value))
           [] term.kind = "sign" -> sign_word_or_comparator_append(st, term)
           [] term.kind = "word" -> word_append(st, term)
           [] term.kind \in {"!", "?", "&", "-"} -> var_op_append(st, term)
           [] term.kind \in {":", ";"} -> word_def_append(st, term)

RECURSIVE TermsFold(_, _)
\* for term in terms: term_instruction_append(term, ...)
TermsFold(st, terms) ==
    IF terms = <<>> THEN st
    ELSE TermsFold(term_instruction_append(st, Head(terms)), Tail(terms))

RECURSIVE WordJmpPatch(_, _, _)
\* for pc in pcs: code[pc].arg = def_pc - pc
WordJmpPatch(st, pcs, def_pc) ==
    IF pcs = <<>> THEN st
    ELSE WordJmpPatch(Patch(st, Head(pcs), def_pc - Head(pcs)), Tail(pcs), def_pc)

RECURSIVE WordsPatch(_, _)
\* for word, pcs in word_jmp_pcs.items(): def_pc = word_def_pc[word]
WordsPatch(st, words) ==
    IF words = {} THEN st
    ELSE LET word == CHOOSE w \in words : TRUE
         IN IF word \notin DOMAIN st.word_def_pc
            THEN [st EXCEPT !.error = TRUE]
            ELSE WordsPatch(WordJmpPatch(st, st.word_jmp_pcs[word], st.word_def_pc[word]),
                            words \ {word})

RECURSIVE DescsPatch(_, _, _)
\* for term_desc in terms_desc: code[term_desc["pc"]].arg = var_busy_cells_count
DescsPatch(st, descs, var_busy_cells_count) ==
    IF descs = <<>> THEN st
    ELSE DescsPatch(Patch(st, Head(descs).pc, var_busy_cells_count),
                    Tail(descs), var_busy_cells_count)

RECURSIVE MaxSize(_)
MaxSize(descs) ==
    IF descs = <<>> THEN 0 ELSE Max(Head(descs).size, MaxSize(Tail(descs)))

RECURSIVE VarsPatch(_, _, _)
\* for variable_name, terms_desc in vars_pcs.items(): each variable takes
\* the cells after those of the variables before it
VarsPatch(st, vars_pcs, var_busy_cells_count) ==
    IF vars_pcs = <<>> THEN st
    ELSE VarsPatch(DescsPatch(st, Head(vars_pcs).descs, var_busy_cells_count),
                   Tail(vars_pcs),
                   var_busy_cells_count + MaxSize(Head(vars_pcs).descs))

TranslateInit ==
    [code |-> <<>>, word_def_pc |-> <<>>, word_jmp_pcs |-> <<>>, vars_pcs |-> <<>>,
     jmp_points |-> <<>>, leaves_points |-> <<>>, last_word_def_jmp_pc |-> -1,
     pc |-> 0, error |-> FALSE]

\* a variant that also drops every leave
lines_to_terms_dropping_leave(tokens) ==
    SelectSeq(tokens, LAMBDA token : token.kind # "unknown" /\ token.name # "leave")

\* not_quote_line_to_term keeps the tokens one of the is_* predicates
\* accepts; for a token of no class (kind "unknown") it evaluates
\* assert "<a non-empty string>", which never raises, and goes on
lines_to_terms(tokens) ==
    SelectSeq(tokens, LAMBDA token : token.kind # "unknown")

\* if_block_begin_check, if_block_middle_check and if_block_end_check on one
\* user word.  blocks[-1] and blocks.pop() raise on the empty list, and
\* assert is_inside_loop raises when no block is a "for" or a "while"; the
\* other asserts are of non-empty strings and never raise
if_not_proc_block_check(ck, term_name) ==
    CASE term_name \in {"do", "doi"} ->
           [ck EXCEPT !.blocks = Append(@, [name |-> "for", had_else |-> FALSE])]
      [] term_name = "begin" ->
           [ck EXCEPT !.blocks = Append(@, [name |-> "while", had_else |-> FALSE])]
      [] term_name = "if" ->
           [ck EXCEPT !.blocks = Append(@, [name |-> "if", had_else |-> FALSE])]
      [] term_name = "else" ->
           IF ck.blocks = <<>> THEN [ck EXCEPT !.error = TRUE]
           ELSE [ck EXCEPT !.blocks[Len(ck.blocks)] = [name |-> "if", had_else |-> TRUE]]
      [] term_name = "leave" ->
           IF \E i \in 1..Len(ck.blocks) : ck.blocks[i].name \in {"for", "while"}
           THEN ck
           ELSE [ck EXCEPT !.error = TRUE]
      [] term_name \in {"loop", "mloop", "until", "then"} ->
           IF ck.blocks = <<>> THEN [ck EXCEPT !.error = TRUE]
           ELSE [ck EXCEPT !.blocks = Pop(@)]
      [] OTHER -> ck

RECURSIVE BlocksFold(_, _)
\* for term in terms: if is_user_word(term.name): if_not_proc_block_check(...)
\* (is_user_word accepts neither ":name" nor ";", so if_proc_block_check
\* never sees a definition, and its asserts never raise anyway)
BlocksFold(ck, terms) ==
    IF terms = <<>> \/ ck.error THEN ck
    ELSE BlocksFold(IF Head(terms).kind = "word"
                    THEN if_not_proc_block_check(ck, Head(terms).name)
                    ELSE ck,
                    Tail(terms))

\* whether code_correctness_check raises; what it finds at the end of the
\* terms only reaches an assert of a non-empty string
code_correctness_check(terms) ==
    BlocksFold([blocks |-> <<>>, error |-> FALSE], terms).error

\* the compilation of the lines: the code, and whether translate raised
Translation(lines) ==
    LET terms == lines_to_terms(lines)
        s0 == [TranslateInit EXCEPT !.error = code_correctness_check(terms)]
        s1 == TermsFold(s0, terms)
        s2 == IF s1.error THEN s1 ELSE WordsPatch(s1, DOMAIN s1.word_jmp_pcs)
        s3 == IF s2.error THEN s2 ELSE VarsPatch(s2, s2.vars_pcs, 0)
    IN s3

\* code.append(Instruction(len(code), Opcode.HALT, None, ...))
translate(lines) ==
    LET code == Translation(lines).code
    IN Append(code, [InstructionNoArg("halt") EXCEPT !.id = Len(code)])

(***************************************************************************)
(* Sources handed to the translator, as terms.                             *)
(***************************************************************************)
\* data_memory_size and ticks_limit of the runs of compiled sources
ForthMemorySize == 48
ForthTicksLimit == 170
\* operands of the arithmetic sources are in -MaxOperand..MaxOperand
MaxOperand == 2
\* bounds of the counted loops are in 0..MaxLoopBound
MaxLoopBound == 3
\* the cell under the operands of the arithmetic sources
Marker == 7

Operands == (0 - MaxOperand)..MaxOperand

LoopBounds == 0..MaxLoopBound

ComparatorWords == {"=", "<>", "<", ">", "<=", ">="}

SignWords == {"+", "-", "*", "/"}

\* Marker a b op
ArithmeticSource(a, b, op) ==
    << NumberTerm(Marker), NumberTerm(a), NumberTerm(b),
       IF op = "mod" THEN WordTerm(op) ELSE SignTerm(op) >>

ArithmeticSources ==
    { ArithmeticSource(a, b, op) :
        a \in Operands, b \in Operands, op \in ComparatorWords \cup SignWords \cup {"mod"} }

\* 1 2 3 drop;  1 2 3 drop drop;  1 2 3 drop +;  1 2 swap drop;  1 dup +
StackSources ==
    { << NumberTerm(1), NumberTerm(2), NumberTerm(3), WordTerm("drop") >>,
      << NumberTerm(1), NumberTerm(2), NumberTerm(3), WordTerm("drop"), WordTerm("drop") >>,
      << NumberTerm(1), NumberTerm(2), NumberTerm(3), WordTerm("drop"), SignTerm("+") >>,
      << NumberTerm(1), NumberTerm(2), WordTerm("swap"), WordTerm("drop") >>,
      << NumberTerm(1), WordTerm("dup"), SignTerm("+") >> }

\* 65 emit
EmitSource == << NumberTerm(InputChar), WordTerm("emit") >>

\* 65 emit;  0 1 - emit;  1 has_input drop;  key emit
PortSources ==
    { EmitSource,
      << NumberTerm(0), NumberTerm(1), SignTerm("-"), WordTerm("emit") >>,
      << NumberTerm(1), WordTerm("has_input"), WordTerm("drop") >>,
      << WordTerm("key"), WordTerm("emit") >> }

\* 5 :w dup emit ; w 6
WordSource ==
    << NumberTerm(5), Term(":", "w", 0), WordTerm("dup"), WordTerm("emit"),
       Term(";", ";", 0), WordTerm("w"), NumberTerm(6) >>

\* :a 1 2 drop drop ; :b a dup drop a ; 5 b 6 b
NestedWordSource ==
    << Term(":", "a", 0), NumberTerm(1), NumberTerm(2), WordTerm("drop"),
       WordTerm("drop"), Term(";", ";", 0),
       Term(":", "b", 0), WordTerm("a"), WordTerm("dup"), WordTerm("drop"),
       WordTerm("a"), Term(";", ";", 0),
       NumberTerm(5), WordTerm("b"), NumberTerm(6), WordTerm("b") >>

WordSources == { WordSource, NestedWordSource }

\* first second do 65 emit closing
DoSource(first, second, closing) ==
    << NumberTerm(first), NumberTerm(second), WordTerm("do"),
       NumberTerm(InputChar), WordTerm("emit"), WordTerm(closing) >>

\* first second doi emit closing
DoiSource(first, second, closing) ==
    << NumberTerm(first), NumberTerm(second), WordTerm("doi"),
       WordTerm("emit"), WordTerm(closing) >>

\* L S do 65 emit loop and L S doi emit loop with S < L,
\* L S do 65 emit mloop and L S doi emit mloop with S > L
\* pairs of bounds, the first one under the second one
Ascending == { p \in LoopBounds \X LoopBounds : p[1] < p[2] }

LoopSources ==
    { DoSource(p[2], p[1], "loop") : p \in Ascending } \cup
    { DoiSource(p[2], p[1], "loop") : p \in Ascending } \cup
    { DoSource(p[1], p[2], "mloop") : p \in Ascending } \cup
    { DoiSource(p[1], p[2], "mloop") : p \in Ascending }

\* 48 58 doi emit loop
IndexLoopSource == DoiSource(48, 58, "loop")

\* 58 48 doi emit loop
IndexLoopSourceLimitFirst == DoiSource(58, 48, "loop")

\* first second opening 65 emit leave 66 emit closing 67 emit
LeaveSource(first, second, opening, closing) ==
    << NumberTerm(first), NumberTerm(second), WordTerm(opening),
       NumberTerm(65), WordTerm("emit"), WordTerm("leave"),
       NumberTerm(66), WordTerm("emit"), WordTerm(closing),
       NumberTerm(67), WordTerm("emit") >>

\* 2 0 do 3 0 do 65 emit leave 66 emit loop 67 emit loop 68 emit
NestedLeaveSource ==
    << NumberTerm(2), NumberTerm(0), WordTerm("do") >>
    \o LeaveSource(3, 0, "do", "loop")
    \o << WordTerm("loop"), NumberTerm(68), WordTerm("emit") >>

\* 3 0 doi 1 = if 65 emit leave then 66 emit loop 67 emit
ConditionalLeaveSource ==
    << NumberTerm(3), NumberTerm(0), WordTerm("doi"), NumberTerm(1), SignTerm("="),
       WordTerm("if"), NumberTerm(65), WordTerm("emit"), WordTerm("leave"),
       WordTerm("then"), NumberTerm(66), WordTerm("emit"), WordTerm("loop"),
       NumberTerm(67), WordTerm("emit") >>

\* begin 65 emit leave 66 emit 0 until 67 emit
UntilLeaveSource ==
    << WordTerm("begin"), NumberTerm(65), WordTerm("emit"), WordTerm("leave"),
       NumberTerm(66), WordTerm("emit"), NumberTerm(0), WordTerm("until"),
       NumberTerm(67), WordTerm("emit") >>

\* 2 0 do begin 65 emit leave 0 until 66 emit loop 67 emit
UntilLeaveInDoSource ==
    << NumberTerm(2), NumberTerm(0), WordTerm("do"), WordTerm("begin"),
       NumberTerm(65), WordTerm("emit"), WordTerm("leave"),
       NumberTerm(0), WordTerm("until"),
       NumberTerm(66), WordTerm("emit"), WordTerm("loop"),
       NumberTerm(67), WordTerm("emit") >>

CountedLeaveSources ==
    { LeaveSource(3, 0, "do", "loop"), LeaveSource(0, 3, "do", "mloop") }

LeaveSources ==
    CountedLeaveSources \cup
    { NestedLeaveSource, ConditionalLeaveSource, UntilLeaveSource, UntilLeaveInDoSource }

\* 1 2 3 swap dudup + drop
StackOpsSource ==
    << NumberTerm(1), NumberTerm(2), NumberTerm(3), WordTerm("swap"), WordTerm("dudup"),
       SignTerm("+"), WordTerm("drop") >>

\* 5 6 7 1 pick 9 n put
PickPutSource(n) ==
    << NumberTerm(5), NumberTerm(6), NumberTerm(7), NumberTerm(1), WordTerm("pick"),
       NumberTerm(9), NumberTerm(n), WordTerm("put") >>

\* 0 h! 7 x! x? x& drop: h takes the cell of the handler, x the next one
VariableSource ==
    << NumberTerm(0), Term("!", "h", 0), NumberTerm(Marker), Term("!", "x", 0),
       Term("?", "x", 0), Term("&", "x", 0), WordTerm("drop") >>

\* cant_emit has_input key drop
FlagsSource ==
    << WordTerm("cant_emit"), WordTerm("has_input"), WordTerm("key"), WordTerm("drop") >>

\* 2 0 doi drop loop;  0 2 do mloop
OpcodeLoopSources ==
    { << NumberTerm(2), NumberTerm(0), WordTerm("doi"), WordTerm("drop"), WordTerm("loop") >>,
      << NumberTerm(0), NumberTerm(2), WordTerm("do"), WordTerm("mloop") >> }

\* the sources run with the handler StackHandler and one arrival at any tick
OpcodeSources ==
    { StackOpsSource, VariableSource, FlagsSource, WordSource }
    \cup { PickPutSource(n) : n \in 0..1 } \cup OpcodeLoopSources

\* f if 65 emit else 66 emit then 67 emit
IfElseSource(f) ==
    << NumberTerm(f), WordTerm("if"), NumberTerm(InputChar), WordTerm("emit"),
       WordTerm("else"), NumberTerm(InputChar + 1), WordTerm("emit"),
       WordTerm("then"), NumberTerm(InputChar + 2), WordTerm("emit") >>

\* f if 65 emit then 67 emit
IfSource(f) ==
    << NumberTerm(f), WordTerm("if"), NumberTerm(InputChar), WordTerm("emit"),
       WordTerm("then"), NumberTerm(InputChar + 2), WordTerm("emit") >>

\* 5 3 > if 89 emit else 78 emit then
ConditionalSource ==
    << NumberTerm(5), NumberTerm(3), SignTerm(">"), WordTerm("if"),
       NumberTerm(89), WordTerm("emit"), WordTerm("else"),
       NumberTerm(78), WordTerm("emit"), WordTerm("then") >>

IfSources ==
    { IfElseSource(f) : f \in Operands } \cup { IfSource(f) : f \in Operands }
    \cup { ConditionalSource }

\* :dbl dup + ; 21 dbl emit
DblSource ==
    << Term(":", "dbl", 0), WordTerm("dup"), SignTerm("+"), Term(";", ";", 0),
       NumberTerm(21), WordTerm("dbl"), WordTerm("emit") >>

\* 1 begin 65 emit 1 - dup until 66 emit: until meets 0, then -1
UntilSource ==
    << NumberTerm(1), WordTerm("begin"), NumberTerm(65), WordTerm("emit"), NumberTerm(1),
       SignTerm("-"), WordTerm("dup"), WordTerm("until"), NumberTerm(66), WordTerm("emit") >>

Sources ==
    ArithmeticSources \cup StackSources \cup PortSources \cup WordSources
    \cup LoopSources \cup { IndexLoopSource, IndexLoopSourceLimitFirst } \cup LeaveSources
    \cup IfSources \cup { DblSource, UntilSource } \cup OpcodeSources

\* the terms of the sources of blocks, of word definitions and of variables
MaxBlockTerms == 4
MaxTerms == 3

\* a token of no class, such as @ or a : that stands alone
UnknownTerm(name) == Term("unknown", name, 0)

\* the sequences of at most count elements of set
SequencesOver(set, count) == UNION { [1..n -> set] : n \in 0..count }

BlockTerms ==
    { WordTerm(name) : name \in {"do", "begin", "if", "else", "then", "loop", "until", "leave"} }

DefTerms ==
    { Term(":", "a", 0), Term(";", ";", 0), WordTerm("a"), NumberTerm(1),
      UnknownTerm(":"), UnknownTerm("@") }

VarTerms ==
    { Term("!", "x", 0), Term("?", "x", 0), Term("!", "y", 0), Term("?", "y", 0),
      Term("&", "y", 0), Term("-", "x", 2), Term("-", "y", 3) }

\* : dbl dup + ; 21 dbl emit, the : standing alone
DblSourceColonAlone ==
    << UnknownTerm(":") >> \o
    << WordTerm("dbl"), WordTerm("dup"), SignTerm("+"), Term(";", ";", 0),
       NumberTerm(21), WordTerm("dbl"), WordTerm("emit") >>

\* do x-2 leave loop: an array is declared where the loop is left
ArrayLeaveSource ==
    << WordTerm("do"), Term("-", "x", 2), WordTerm("leave"), WordTerm("loop") >>

\* x-3 5
ArrayLiteralSource == << Term("-", "x", 3), NumberTerm(5) >>

\* the sources that are run after their translation
RunSources ==
    PortSources \cup IfSources
    \cup { DblSource, IndexLoopSource, IndexLoopSourceLimitFirst, ArithmeticSource(1, 0, "/") }

CompileSources ==
    SequencesOver(BlockTerms, MaxBlockTerms) \cup SequencesOver(DefTerms, MaxTerms)
    \cup SequencesOver(VarTerms, MaxTerms)
    \cup { DblSourceColonAlone, ArrayLeaveSource, ArrayLiteralSource } \cup RunSources

\* the sources run with every handler pair and every input schedule
InterruptedSources == StackSources \cup PortSources \cup { WordSource }

HaltOnlyPorts == << [interrupt_code_on_write |-> << Halt >>, interrupt_code_on_read |-> << Halt >>] >>

\* handler pairs of the interrupted runs: HALT only, or writing 67 to the port
ForthPortsDescriptions ==
    { d \in PortsDescriptions :
        /\ d[1].interrupt_code_on_write[1].opcode \in {"halt", "number"}
        /\ d[1].interrupt_code_on_read[1].opcode \in {"halt", "number"} }

\* input schedules of the interrupted runs: arrivals at the first tick and
\* at a later one
ForthInputSchedules == { s \in InputSchedules : DOMAIN s \subseteq {0, 3} }

(***************************************************************************)
(* The state: the objects simulation() builds, the position of             *)
(* do_simulation in its loop, what was printed, and a history of the run   *)
(* (hist) that the program does not hold and the properties read.          *)
(***************************************************************************)
VARIABLES data_path, control_unit, ports_description, trimmed_input_tokens,
          ticks_limit, pc, stdout, hist

vars == << data_path, control_unit, ports_description, trimmed_input_tokens,
           ticks_limit, pc, stdout, hist >>

config == << ports_description, trimmed_input_tokens, ticks_limit >>

\* the context an interrupt entry starts from
Context(dp, cu, is_write_interruption) ==
    [data_path |-> dp, control_unit |-> cu, is_write_interruption |-> is_write_interruption]

\* the registers and counters an instruction starts from
Started(dp, cu, entries) ==
    [data_path |-> dp, ticks_counter |-> cu.ticks_counter, entries |-> entries]

\* the history at the start of a run of the program compiled from source
\* (<<>> for a program that was not compiled from a source): ctx is the
\* context of the last dispatch, start the state the instruction under
\* execution started from, calls the starts of the word calls that have not
\* returned, returned the start of the call that returned last, underflow
\* whether OD_SHP has been under the start of the operand stack, code the
\* program the translator wrote to its target file
History(source) ==
    LET boot == DataPathInit(DataMemorySize, VarMemorySize, ports_description, <<Halt>>)
    IN [ev |-> "init",
        ctx |-> Context(boot, ControlUnit, FALSE),
        head_ticks |-> 0, entries |-> 0, exits |-> 0,
        interrupted |-> {}, ignored |-> {},
        writes |-> <<>>, presented |-> <<>>,
        source |-> source,
        start |-> Started(boot, ControlUnit, 0),
        calls |-> <<>>,
        returned |-> Started(boot, ControlUnit, 0),
        underflow |-> FALSE,
        code |-> <<>>,
        until |-> Started(boot, ControlUnit, 0)]

RECURSIVE HandlersLength(_, _)
\* the length of the handler code of the first n ports
HandlersLength(description, n) ==
    IF n = 0 THEN 0
    ELSE HandlersLength(description, n - 1)
         + Len(description[n].interrupt_code_on_write)
         + Len(description[n].interrupt_code_on_read)

\* memory_size: the machine of two ports has the cells of its second port's
\* table entries and handlers on top of DataMemorySize
MemorySize(description) ==
    DataMemorySize + 2 * (Len(description) - 1)
      + HandlersLength(description, Len(description)) - HandlersLength(description, 1)

Init ==
    /\ ports_description \in PortsDescriptions \cup TwoPortsDescriptions
    /\ trimmed_input_tokens \in InputSchedules
    /\ ticks_limit \in TicksLimits
    /\ \E program \in MainPrograms :
         data_path = DataPathInit(MemorySize(ports_description), VarMemorySize,
                                  ports_description, program)
    /\ control_unit = ControlUnit
    /\ pc = "head"
    /\ stdout = <<>>
    /\ hist = History(<<>>)

(***************************************************************************)
(* do_simulation.  pc = "head": at the loop condition; "exec": before      *)
(* next_tick_execute; "post": after it, before the test of                 *)
(* filled_with_cpu; "limit": the loop has ended; "halted": StopIteration   *)
(* has ended it; "crashed": another exception has.                         *)
(***************************************************************************)
MainPort(dp) == dp.ports[main_port_number + 1]

\* while control_unit.ticks_counter < ticks_limit: ended
LoopExit ==
    /\ pc = "head"
    /\ ~(control_unit.ticks_counter < ticks_limit)
    /\ pc' = "limit"
    /\ hist' = [hist EXCEPT !.ev = "loop_exit",
                            !.head_ticks = control_unit.ticks_counter]
    /\ UNCHANGED << data_path, control_unit, config, stdout >>

\* a variant whose dispatch takes no tick
InputArrival_takes_no_tick(dp, cu, token) ==
    LET filled == [dp EXCEPT !.ports[main_port_number + 1].data = Num(token),
                             !.ports[main_port_number + 1].filled_with_device = TRUE]
    IN [dp |-> step_in_port_interruption(filled, main_port_number, TRUE),
        cu |-> [cu EXCEPT !.is_in_interruption = TRUE],
        ctx |-> Context(filled, cu, TRUE)]

\* the input branch of the loop body, taken when no interruption is in progress
InputArrival(dp, cu, token) ==
    LET in_interruption == [cu EXCEPT !.is_in_interruption = TRUE]
        filled == [dp EXCEPT !.ports[main_port_number + 1].data = Num(token),
                             !.ports[main_port_number + 1].filled_with_device = TRUE]
        entered == step_in_port_interruption(filled, main_port_number, TRUE)
    IN [dp |-> entered,
        cu |-> IF entered.raised THEN in_interruption
               ELSE [in_interruption EXCEPT !.ticks_counter = @ + 3],
        ctx |-> Context(filled, cu, TRUE)]

InputInterruption ==
    /\ pc = "head"
    /\ control_unit.ticks_counter < ticks_limit
    /\ control_unit.ticks_counter \in DOMAIN trimmed_input_tokens
    /\ ~control_unit.is_in_interruption
    /\ LET r == InputArrival(data_path, control_unit,
                             trimmed_input_tokens[control_unit.ticks_counter])
       IN /\ data_path' = r.dp
          /\ control_unit' = r.cu
          /\ pc' = IF r.dp.raised THEN "crashed" ELSE "head"
          /\ hist' = [hist EXCEPT !.ev = "input_interruption",
                                  !.head_ticks = control_unit.ticks_counter,
                                  !.ctx = r.ctx,
                                  !.entries = @ + 1,
                                  !.interrupted = @ \cup {control_unit.ticks_counter}]
    /\ UNCHANGED << config, stdout >>

\* a variant that lets the device fill the port while an interruption is in
\* progress
InputIgnored_fills_port ==
    /\ pc = "head"
    /\ control_unit.ticks_counter < ticks_limit
    /\ control_unit.ticks_counter \in DOMAIN trimmed_input_tokens
    /\ control_unit.is_in_interruption
    /\ data_path' = [data_path EXCEPT
                       !.ports[main_port_number + 1].data =
                           Num(trimmed_input_tokens[control_unit.ticks_counter]),
                       !.ports[main_port_number + 1].filled_with_device = TRUE]
    /\ pc' = "exec"
    /\ hist' = [hist EXCEPT !.ev = "input_ignored",
                            !.head_ticks = control_unit.ticks_counter,
                            !.ignored = @ \cup {control_unit.ticks_counter}]
    /\ UNCHANGED << control_unit, config, stdout >>

\* the input branch when an interruption is in progress: the write is logged
\* as ignored and the loop body goes on
InputIgnored ==
    /\ pc = "head"
    /\ control_unit.ticks_counter < ticks_limit
    /\ control_unit.ticks_counter \in DOMAIN trimmed_input_tokens
    /\ control_unit.is_in_interruption
    /\ pc' = "exec"
    /\ hist' = [hist EXCEPT !.ev = "input_ignored",
                            !.head_ticks = control_unit.ticks_counter,
                            !.ignored = @ \cup {control_unit.ticks_counter}]
    /\ UNCHANGED << data_path, control_unit, config, stdout >>

NoInput ==
    /\ pc = "head"
    /\ control_unit.ticks_counter < ticks_limit
    /\ control_unit.ticks_counter \notin DOMAIN trimmed_input_tokens
    /\ pc' = "exec"
    /\ hist' = [hist EXCEPT !.ev = "no_input",
                            !.head_ticks = control_unit.ticks_counter]
    /\ UNCHANGED << data_path, control_unit, config, stdout >>

\* the instruction a tick executes, when there is one
CurrentInstruction == Mem(data_path, data_path.instruction_pointer)

IsMainPortWrite(instruction) ==
    /\ instruction.k = "ins"
    /\ instruction.opcode = "write port"
    /\ instruction.has_arg
    /\ instruction.arg = main_port_number

\* control_unit.next_tick_execute() raises StopIteration: simulation() catches it
HaltStop ==
    /\ pc = "exec"
    /\ next_tick_execute(data_path, control_unit).stop
    /\ pc' = "halted"
    /\ data_path' = next_tick_execute(data_path, control_unit).dp
    /\ hist' = [hist EXCEPT !.ev = "halt"]
    /\ UNCHANGED << control_unit, config, stdout >>

\* control_unit.next_tick_execute() raises another exception
TickRaises ==
    /\ pc = "exec"
    /\ next_tick_execute(data_path, control_unit).dp.raised
    /\ pc' = "crashed"
    /\ data_path' = next_tick_execute(data_path, control_unit).dp
    /\ control_unit' = next_tick_execute(data_path, control_unit).cu
    /\ hist' = [hist EXCEPT !.ev = "raised"]
    /\ UNCHANGED << config, stdout >>

\* control_unit.next_tick_execute() executes HALT in an interruption
InterruptionExit ==
    /\ pc = "exec"
    /\ LET r == next_tick_execute(data_path, control_unit)
       IN /\ ~r.stop /\ ~r.dp.raised
          /\ CurrentInstruction.opcode = "halt"
          /\ data_path' = r.dp
          /\ control_unit' = r.cu
    /\ pc' = "post"
    /\ hist' = [hist EXCEPT !.ev = "interruption_exit", !.exits = @ + 1]
    /\ UNCHANGED << config, stdout >>

\* the tick to execute is the first one of its instruction
FirstTick == data_path.instruction_stage_number = Num(1)

StartedNow == Started(data_path, control_unit, hist.entries)

\* the instruction to execute is the first of the three that until lowers to
\* (NUMBER 0; NEQ; EXEC_COND_JMP)
AtUntil ==
    LET after(n) == Mem(data_path, PyAdd(data_path.instruction_pointer, Num(n)))
    IN /\ CurrentInstruction.opcode = "number"
       /\ CurrentInstruction.arg = 0
       /\ after(1).k = "ins" /\ after(1).opcode = "neq"
       /\ after(2).k = "ins" /\ after(2).opcode = "exec cond jmp"

\* the tick to execute is the last one of a JMP_POP_PRA_SHP
Returns ==
    /\ CurrentInstruction.opcode = "jmp pop pra shp"
    /\ next_tick_execute(data_path, control_unit).dp.instruction_stage_number = Num(1)

\* the tick to execute leaves OD_SHP under the start of the operand stack
UnderflowsNow ==
    LET dp == next_tick_execute(data_path, control_unit).dp
    IN dp.od_sh_pointer < dp.od_stack_start

\* control_unit.next_tick_execute() executes a tick of another instruction
Tick ==
    /\ pc = "exec"
    /\ LET r == next_tick_execute(data_path, control_unit)
       IN /\ ~r.stop /\ ~r.dp.raised
          /\ CurrentInstruction.opcode # "halt"
          /\ data_path' = r.dp
          /\ control_unit' = r.cu
    /\ pc' = "post"
    /\ hist' = [hist EXCEPT !.ev = "tick",
                            !.writes = IF IsMainPortWrite(CurrentInstruction)
                                       THEN Append(@, data_path.top) ELSE @,
                            !.start = IF FirstTick THEN StartedNow ELSE @,
                            !.calls = IF FirstTick /\ CurrentInstruction.opcode =
                                                        "push inc inc ip to pra shp"
                                      THEN Append(@, StartedNow)
                                      ELSE IF Returns /\ @ # <<>> THEN Pop(@) ELSE @,
                            !.returned = IF Returns /\ hist.calls # <<>>
                                         THEN Last(hist.calls) ELSE @,
                            !.underflow = @ \/ UnderflowsNow,
                            !.until = IF FirstTick /\ AtUntil THEN StartedNow ELSE @]
    /\ UNCHANGED << config, stdout >>

\* if data_path.ports[main_port_number].filled_with_cpu: not taken
NoOutput ==
    /\ pc = "post"
    /\ ~MainPort(data_path).filled_with_cpu
    /\ pc' = "head"
    /\ hist' = [hist EXCEPT !.ev = "no_output"]
    /\ UNCHANGED << data_path, control_unit, config, stdout >>

\* chr(data) accepts an int in range(0x110000)
ChrOK(data) == IsNum(data) /\ data.arg >= 0 /\ data.arg < 1114112

\* what print writes for the character of code c
Printed(c) == IF c = 13 THEN 10 ELSE c

\* the output branch of the loop body
OutputArrival(dp, cu) ==
    LET cleared == [dp EXCEPT !.ports[main_port_number + 1].filled_with_cpu = FALSE]
        in_interruption == [cu EXCEPT !.is_in_interruption = TRUE]
        entered == step_in_port_interruption(cleared, main_port_number, FALSE)
    IN [dp |-> entered,
        cu |-> IF entered.raised THEN in_interruption
               ELSE [in_interruption EXCEPT !.ticks_counter = @ + 3],
        ctx |-> Context(cleared, cu, FALSE)]

OutputInterruption ==
    /\ pc = "post"
    /\ MainPort(data_path).filled_with_cpu
    /\ ChrOK(MainPort(data_path).data)
    /\ LET r == OutputArrival(data_path, control_unit)
       IN /\ data_path' = r.dp
          /\ control_unit' = r.cu
          /\ pc' = IF r.dp.raised THEN "crashed" ELSE "head"
          /\ hist' = [hist EXCEPT !.ev = "output_interruption",
                                  !.ctx = r.ctx,
                                  !.entries = @ + 1,
                                  !.presented = Append(@, MainPort(data_path).data)]
    /\ stdout' = Append(stdout, Printed(MainPort(data_path).data.arg))
    /\ UNCHANGED config

\* chr(data_path.ports[main_port_number].data) raises
OutputRaises ==
    /\ pc = "post"
    /\ MainPort(data_path).filled_with_cpu
    /\ ~ChrOK(MainPort(data_path).data)
    /\ pc' = "crashed"
    /\ hist' = [hist EXCEPT !.ev = "raised"]
    /\ UNCHANGED << data_path, control_unit, config, stdout >>

Next ==
    \/ LoopExit
    \/ InputInterruption
    \/ InputIgnored
    \/ NoInput
    \/ HaltStop
    \/ TickRaises
    \/ InterruptionExit
    \/ Tick
    \/ NoOutput
    \/ OutputInterruption
    \/ OutputRaises

Spec == Init /\ [][Next]_vars

\* var_memory_size of the run of a source: the sources run with StackHandler
\* have a cell more, the first one being the one the handler writes
VarCells(source) == IF source \in OpcodeSources THEN VarMemorySize + 1 ELSE VarMemorySize

\* simulation() of the program compiled from a source
ForthInit ==
    /\ \E source \in Sources :
         /\ ~Translation(source).error
         /\ \/ /\ ports_description = HaltOnlyPorts
               /\ trimmed_input_tokens = <<>>
            \/ /\ source \in InterruptedSources
               /\ ports_description \in ForthPortsDescriptions
               /\ trimmed_input_tokens \in ForthInputSchedules
            \/ /\ source \in OpcodeSources
               /\ ports_description = StackPorts
               /\ trimmed_input_tokens \in ArrivalSchedules
         /\ data_path = DataPathInit(ForthMemorySize, VarCells(source), ports_description,
                                     translate(source))
         /\ hist = History(source)
    /\ ticks_limit = ForthTicksLimit
    /\ control_unit = ControlUnit
    /\ pc = "head"
    /\ stdout = <<>>

ForthSpec == ForthInit /\ [][Next]_vars

\* translator.py main on a source, then machine.py main on the file it wrote.
\* pc = "source": before translate; "failed": translate raised and nothing
\* was written; "written": write_code wrote the program
CompileInit ==
    /\ \E source \in CompileSources :
         /\ \/ /\ ports_description = HaltOnlyPorts
               /\ trimmed_input_tokens = <<>>
            \/ /\ source \in PortSources
               /\ ports_description \in ForthPortsDescriptions
               /\ trimmed_input_tokens \in ForthInputSchedules
         /\ hist = History(source)
    /\ data_path = DataPathInit(ForthMemorySize, VarMemorySize, ports_description, <<Halt>>)
    /\ ticks_limit = ForthTicksLimit
    /\ control_unit = ControlUnit
    /\ pc = "source"
    /\ stdout = <<>>

\* code = translate(source) raises
TranslateRaises ==
    /\ pc = "source"
    /\ Translation(hist.source).error
    /\ pc' = "failed"
    /\ UNCHANGED << data_path, control_unit, config, stdout, hist >>

\* code = translate(source); write_code(target, code)
TranslateWrites ==
    /\ pc = "source"
    /\ ~Translation(hist.source).error
    /\ hist' = [hist EXCEPT !.code = translate(hist.source)]
    /\ pc' = "written"
    /\ UNCHANGED << data_path, control_unit, config, stdout >>

\* program = read_code(code_file); simulation(..., program, ...), for the
\* sources that are run
MachineLoads ==
    /\ pc = "written"
    /\ hist.source \in RunSources
    /\ data_path' = DataPathInit(ForthMemorySize, VarMemorySize, ports_description, hist.code)
    /\ pc' = "head"
    /\ UNCHANGED << control_unit, config, stdout, hist >>

CompileNext == TranslateRaises \/ TranslateWrites \/ MachineLoads \/ Next

CompileSpec == CompileInit /\ [][CompileNext]_vars

(***************************************************************************)
(* Properties of the interrupt protocol.  hist.ctx holds the data path     *)
(* and the control unit a dispatch started from: the state right before    *)
(* the call of step_in_port_interruption.                                  *)
(***************************************************************************)
\* the state right after a dispatch that did not raise
Dispatched ==
    /\ hist.ev \in {"input_interruption", "output_interruption"}
    /\ pc # "crashed"

\* the memory of dp equals the memory of before outside the two cells the
\* dispatch from PRA_SHP = p pushes to
OnlyReturnCellsChanged(before, dp) ==
    LET mem == before.data_memory
        p == before.pra_shp_pointer
    IN \A a \in 1..Len(mem) :
         a \notin {Slot(mem, Num(p - 1)), Slot(mem, Num(p - 2))}
           => dp.data_memory[a] = mem[a]

\* C1: a dispatch from IP = i, ISN = s, PRA_SHP = p leaves PRA_SHP = p - 2,
\* mem[p-1] = i, mem[p-2] = s, ISN = 1 and IP = the start PC read from the
\* handler table; OD_SHP, TOP, NEXT and every other memory cell are unchanged.
C1_DispatchPushesContext ==
    Dispatched =>
      LET before == hist.ctx.data_path
          p == before.pra_shp_pointer
          table_cell == 2 * main_port_number
                          + (IF hist.ctx.is_write_interruption THEN 0 ELSE 1)
      IN /\ data_path.pra_shp_pointer = p - 2
         /\ Mem(data_path, Num(p - 1)) = before.instruction_pointer
         /\ Mem(data_path, Num(p - 2)) = before.instruction_stage_number
         /\ data_path.instruction_stage_number = Num(1)
         /\ data_path.instruction_pointer = Mem(before, Num(table_cell))
         /\ data_path.od_sh_pointer = before.od_sh_pointer
         /\ data_path.top = before.top
         /\ data_path.next = before.next
         /\ OnlyReturnCellsChanged(before, data_path)

\* a dispatch in the middle of an instruction, with values on the stack
C1_Witness ==
    /\ Dispatched
    /\ hist.ctx.data_path.instruction_stage_number = Num(2)
    /\ IsNum(hist.ctx.data_path.top)

\* the handler a dispatch from ctx enters starts with HALT
HaltOnlyHandler(ctx) ==
    LET entered == step_in_port_interruption(ctx.data_path, main_port_number,
                                             ctx.is_write_interruption)
        first == Mem(ctx.data_path, entered.instruction_pointer)
    IN first.k = "ins" /\ first.opcode = "halt"

\* the state right after the HALT of a HALT-only handler that interrupted
\* the main program
HaltOnlyHandlerReturned ==
    /\ hist.ev = "interruption_exit"
    /\ ~hist.ctx.control_unit.is_in_interruption
    /\ HaltOnlyHandler(hist.ctx)

\* C2: after the HALT of a HALT-only handler that interrupted the main
\* program at any tick boundary, IP, ISN, PRA_SHP, OD_SHP, TOP and NEXT have
\* their values from before the dispatch, is_in_interruption is false and
\* only the two return-stack cells below the old PRA_SHP have changed.
C2_HaltRestoresContext ==
    HaltOnlyHandlerReturned =>
      LET before == hist.ctx.data_path
      IN /\ data_path.instruction_pointer = before.instruction_pointer
         /\ data_path.instruction_stage_number = before.instruction_stage_number
         /\ data_path.pra_shp_pointer = before.pra_shp_pointer
         /\ data_path.od_sh_pointer = before.od_sh_pointer
         /\ data_path.top = before.top
         /\ data_path.next = before.next
         /\ ~control_unit.is_in_interruption
         /\ OnlyReturnCellsChanged(before, data_path)

\* a return to the third tick of an instruction
C2_Witness ==
    /\ HaltOnlyHandlerReturned
    /\ hist.ctx.data_path.instruction_stage_number = Num(3)

\* C3: every dispatch, by an input arrival or after a WRITE_PORT on the main
\* port, advances ticks_counter by exactly 2.
C3_EntryTakesTwoTicks ==
    Dispatched =>
      control_unit.ticks_counter = hist.ctx.control_unit.ticks_counter + 2

\* C4: an input arrival on port p sets IP to handler-table cell 2p+1 (the
\* start of interrupt_code_on_read), a dispatch after WRITE_PORT p sets IP to
\* handler-table cell 2p (the start of interrupt_code_on_write).
C4_HandlerMatchesCause ==
    Dispatched =>
      LET before == hist.ctx.data_path
      IN /\ hist.ev = "input_interruption" =>
              /\ data_path.instruction_pointer = Mem(before, Num(2 * main_port_number + 1))
              /\ data_path.instruction_pointer =
                   Num(ProcedurePoint(ports_description, 2 * main_port_number + 1))
         /\ hist.ev = "output_interruption" =>
              /\ data_path.instruction_pointer = Mem(before, Num(2 * main_port_number))
              /\ data_path.instruction_pointer =
                   Num(ProcedurePoint(ports_description, 2 * main_port_number))

\* C5: no interrupt entry is performed while is_in_interruption is true, so
\* the return stack never holds more than one saved (IP, ISN) pair.
C5_NoNestedEntry ==
    /\ Dispatched => ~hist.ctx.control_unit.is_in_interruption
    /\ hist.entries - hist.exits <= 1

\* the input branch of the loop body is reached with an interruption in progress
ArrivalInInterruption ==
    /\ pc = "head"
    /\ control_unit.ticks_counter < ticks_limit
    /\ control_unit.ticks_counter \in DOMAIN trimmed_input_tokens
    /\ control_unit.is_in_interruption

\* C6: an input-schedule entry that matches the tick counter while
\* is_in_interruption is true is dropped: no dispatch, ports[0].data,
\* ports[0].filled_with_device, IP, ISN and PRA_SHP keep their values, and
\* the tick of the running handler is what executes next.
C6_ArrivalInInterruptionDropped ==
    [][ArrivalInInterruption =>
         /\ MainPort(data_path').data = MainPort(data_path).data
         /\ MainPort(data_path').filled_with_device = MainPort(data_path).filled_with_device
         /\ data_path'.instruction_pointer = data_path.instruction_pointer
         /\ data_path'.instruction_stage_number = data_path.instruction_stage_number
         /\ data_path'.pra_shp_pointer = data_path.pra_shp_pointer
         /\ control_unit' = control_unit
         /\ hist'.entries = hist.entries
         /\ hist'.ignored = hist.ignored \cup {control_unit.ticks_counter}
         /\ pc' = "exec"]_vars

\* an arrival has been dropped and the handler's tick is about to execute
C6_Witness ==
    /\ hist.ev = "input_ignored"
    /\ pc = "exec"
    /\ control_unit.is_in_interruption
    /\ ~MainPort(data_path).filled_with_device

\* the main program region [V+K, P)
InMainProgram(ip) ==
    /\ IsNum(ip)
    /\ ip.arg >= data_path.var_data_start_point + VarMemorySize
    /\ ip.arg < data_path.od_stack_start

\* C7: StopIteration ends the simulation only at a HALT of the main program
\* region with no handler active; a HALT of handler code never stops the
\* machine.
C7_OnlyMainHaltStops ==
    pc = "halted" =>
      /\ ~control_unit.is_in_interruption
      /\ InMainProgram(data_path.instruction_pointer)

\* C8: at the end of the run every input-schedule entry with a tick index
\* below the tick counter has been dispatched or dropped.
C8_EveryEntryExamined ==
    pc \in {"halted", "limit"} =>
      \A t \in DOMAIN trimmed_input_tokens :
        t < control_unit.ticks_counter => t \in hist.interrupted \cup hist.ignored

Rank(p) ==
    CASE p = "post" -> 3
      [] p = "head" -> 2
      [] p = "exec" -> 1
      [] OTHER -> 0

\* an iteration that passes the loop condition adds at most 4 to ticks_counter
Variant == 4 * (ticks_limit + 4 - control_unit.ticks_counter) + Rank(pc)

C11_StageOneAfterInstruction ==
    [][control_unit'.instructions_counter = control_unit.instructions_counter + 1
         => data_path'.instruction_stage_number = Num(1)]_vars

\* the last tick of an instruction that was interrupted after its first or
\* second tick, and resumed by the HALT of the handler
C11_Witness ==
    /\ hist.ev = "tick"
    /\ hist.exits >= 1
    /\ ~control_unit.is_in_interruption
    /\ hist.ctx.data_path.instruction_stage_number \in {Num(2), Num(3)}
    /\ data_path.cur_tick_regs_state.ip = hist.ctx.data_path.instruction_pointer
    /\ control_unit.instructions_counter > hist.ctx.control_unit.instructions_counter
    /\ data_path.instruction_stage_number = Num(1)

(***************************************************************************)
(* Properties of compiled programs, stated on the runs of ForthSpec.       *)
(* hist.source is the source the program was compiled from, hist.start     *)
(* the state the last instruction started from.                            *)
(***************************************************************************)
\* the handlers leave both stacks as they found them and end in HALT: they
\* are HALT alone, or NUMBER 67; WRITE_PORT 0; HALT
NeutralHandlers == ports_description \in ForthPortsDescriptions

\* C12: in every reachable state of a run of a compiled program that has not
\* popped an empty operand stack, with stack-neutral handlers ending in
\* HALT, data_memory[IP] is an Instruction.
C12_IpOnInstruction ==
    /\ hist.source \in Sources
    /\ NeutralHandlers
    /\ ~hist.underflow
    /\ pc # "crashed"
    => CurrentInstruction.k = "ins"

\* the number of elements on the operand stack
Elements(dp) == dp.od_sh_pointer - dp.od_stack_start

\* data_memory[OD_SHP - below]
StackCell(dp, below) == Mem(dp, Num(dp.od_sh_pointer - below))

\* an instruction of a compiled program has executed its last tick, no
\* dispatch has happened since its first one, and the run has not popped an
\* empty operand stack
Completed ==
    /\ hist.source \in Sources
    /\ hist.ev = "tick"
    /\ data_path.instruction_stage_number = Num(1)
    /\ hist.start.entries = hist.entries
    /\ data_path.cur_tick_regs_state.ip = hist.start.data_path.instruction_pointer
    /\ ~hist.underflow

\* the instruction that has executed
Executed == Mem(hist.start.data_path, hist.start.data_path.instruction_pointer)

\* C13: TOP mirrors the head of the operand stack: an instruction that
\* starts with TOP = data_memory[OD_SHP] on a stack that has not underflowed
\* and leaves at least one element ends with TOP = data_memory[OD_SHP].
C13_TopMirrorsHead ==
    /\ Completed
    /\ Elements(hist.start.data_path) >= 1
    /\ hist.start.data_path.top = StackCell(hist.start.data_path, 0)
    /\ Elements(data_path) >= 1
    => data_path.top = StackCell(data_path, 0)

\* C14: NEXT mirrors the cell under the head of the operand stack: an
\* instruction that starts with NEXT = data_memory[OD_SHP - 1] on a stack
\* that has not underflowed and leaves at least two elements ends with
\* NEXT = data_memory[OD_SHP - 1].
C14_NextMirrorsSecond ==
    /\ Completed
    /\ Elements(hist.start.data_path) >= 2
    /\ hist.start.data_path.next = StackCell(hist.start.data_path, 1)
    /\ Elements(data_path) >= 2
    => data_path.next = StackCell(data_path, 1)

ComparisonOpcodes == {"eq", "neq", "less", "gr", "le", "ge"}

\* the relation a comparison opcode stands for
Holds(opcode, a, b) ==
    CASE opcode = "eq" -> a = b
      [] opcode = "neq" -> a # b
      [] opcode = "less" -> a < b
      [] opcode = "gr" -> a > b
      [] opcode = "le" -> a <= b
      [] opcode = "ge" -> a >= b

\* an instruction has completed that started on a stack of at least two
\* elements whose two upper ones are the integers in NEXT and TOP
CompletedOnTwo ==
    /\ Completed
    /\ Elements(hist.start.data_path) >= 2
    /\ IsNum(hist.start.data_path.next)
    /\ IsNum(hist.start.data_path.top)
    /\ hist.start.data_path.next = StackCell(hist.start.data_path, 1)
    /\ hist.start.data_path.top = StackCell(hist.start.data_path, 0)

\* C15: for integers a (NEXT) and b (TOP) the opcodes EQ, NEQ, LESS, GR, LE
\* and GE leave 0 on the operand stack when a = b, a # b, a < b, a > b,
\* a <= b, a >= b holds, and -1 otherwise.
C15_ComparisonResult ==
    CompletedOnTwo /\ Executed.opcode \in ComparisonOpcodes
    => LET a == hist.start.data_path.next.arg
           b == hist.start.data_path.top.arg
           result == IF Holds(Executed.opcode, a, b) THEN Num(0) ELSE Num(-1)
       IN /\ data_path.top = result
          /\ StackCell(data_path, 0) = result
          /\ Elements(data_path) = Elements(hist.start.data_path) - 1

\* LESS has left 0 for a < b
C15_Witness ==
    /\ CompletedOnTwo
    /\ Executed.opcode = "less"
    /\ hist.start.data_path.next.arg < hist.start.data_path.top.arg
    /\ StackCell(data_path, 0) = Num(0)

ArithmeticOpcodes == {"sum", "diff", "mul", "div", "mod"}

\* the largest integer q with q * b <= a for b > 0, q * b >= a for b < 0
Floor(a, b) ==
    LET abs(x) == IF x < 0 THEN 0 - x ELSE x
    IN CHOOSE q \in (0 - abs(a) - 1)..abs(a) :
         IF b > 0 THEN q * b <= a /\ a < (q + 1) * b
                  ELSE q * b >= a /\ a > (q + 1) * b

\* what a binary arithmetic opcode computes from a and b, b # 0 for DIV, MOD
Arithmetic(opcode, a, b) ==
    CASE opcode = "sum" -> a + b
      [] opcode = "diff" -> a - b
      [] opcode = "mul" -> a * b
      [] opcode = "div" -> Floor(a, b)
      [] opcode = "mod" -> a - b * Floor(a, b)

\* C16: a binary ALU opcode (SUM, DIFF, MUL, DIV, MOD) on a stack whose two
\* upper elements are a (NEXT) and b (TOP) completes in exactly two ticks,
\* decreases OD_SHP by 1, leaves TOP = data_memory[OD_SHP] = a + b, a - b,
\* a * b, floor(a / b), a mod b (b # 0), NEXT equal to the cell that was at
\* OD_SHP - 2, and increases IP by 1.
C16_BinaryAluStep ==
    CompletedOnTwo /\ Executed.opcode \in ArithmeticOpcodes
    => LET before == hist.start.data_path
           result == Num(Arithmetic(Executed.opcode, before.next.arg, before.top.arg))
       IN /\ control_unit.ticks_counter = hist.start.ticks_counter + 2
          /\ data_path.od_sh_pointer = before.od_sh_pointer - 1
          /\ data_path.top = result
          /\ StackCell(data_path, 0) = result
          /\ data_path.next = StackCell(before, 2)
          /\ data_path.instruction_pointer = Num(before.instruction_pointer.arg + 1)

\* DIV has rounded a negative quotient down
C16_Witness ==
    /\ CompletedOnTwo
    /\ Executed.opcode = "div"
    /\ hist.start.data_path.next = Num(-1)
    /\ hist.start.data_path.top = Num(MaxOperand)
    /\ data_path.top = Num(-1)
    /\ data_path.next = Num(Marker)

\* a JMP_POP_PRA_SHP has completed that returns from a word call of a source
\* whose words have stack-neutral bodies; hist.returned is the state the
\* PUSH_INC_INC_IP_TO_PRA_SHP of that call started from
Returned ==
    /\ Completed
    /\ hist.source \in WordSources
    /\ Executed.opcode = "jmp pop pra shp"
    /\ Mem(hist.returned.data_path, hist.returned.data_path.instruction_pointer).opcode
         = "push inc inc ip to pra shp"

\* C17: for a word whose body is stack neutral, the call sequence
\* (PUSH_INC_INC_IP_TO_PRA_SHP; JMP), the body and JMP_POP_PRA_SHP resume at
\* the instruction right after the call's JMP, with PRA_SHP and OD_SHP as
\* they were before the call and TOP equal to the head of the operand stack.
C17_CallReturns ==
    Returned
    => LET call == hist.returned.data_path
       IN /\ data_path.instruction_pointer = Num(call.instruction_pointer.arg + 2)
          /\ Mem(data_path, Num(call.instruction_pointer.arg + 1)).opcode = "jmp"
          /\ data_path.pra_shp_pointer = call.pra_shp_pointer
          /\ data_path.od_sh_pointer = call.od_sh_pointer
          /\ data_path.top = StackCell(data_path, 0)

\* a word called from the body of another word has returned into that body
C17_Witness ==
    /\ Returned
    /\ hist.source = NestedWordSource
    /\ Len(hist.calls) = 1
    /\ data_path.instruction_pointer =
         Num(hist.returned.data_path.instruction_pointer.arg + 2)

\* the run has HALT-only handlers and an empty input schedule
Undisturbed == ports_description = HaltOnlyPorts /\ trimmed_input_tokens = <<>>

IsPrefix(s, t) == Len(s) <= Len(t) /\ s = SubSeq(t, 1, Len(s))

\* 48, 49, ..., 57: the character codes of 0123456789
Digits == [i \in 1..10 |-> 47 + i]

\* the values written to the main port, as integers
Written == [i \in 1..Len(hist.writes) |-> hist.writes[i].arg]

\* the run of source writes exactly the values of expected to the main
\* port, in this order, prints them and then halts
WritesThenHalts(source, expected) ==
    hist.source = source /\ Undisturbed
    => /\ IsPrefix(Written, expected)
       /\ IsPrefix(stdout, expected)
       /\ pc \notin {"limit", "crashed"}
       /\ pc = "halted" => Written = expected /\ stdout = expected

\* C18 as stated: the source 48 58 doi emit loop, run with HALT-only
\* handlers and an empty input schedule, writes to the main port exactly
\* 48, 49, ..., 57 in this order (stdout 0123456789) and then halts.
C18_IndexLoopAsWritten == WritesThenHalts(IndexLoopSource, Digits)

\* C18, amended: the source 58 48 doi emit loop (limit first, start second),
\* run with HALT-only handlers and an empty input schedule, writes to the
\* main port exactly 48, 49, ..., 57 in this order (stdout 0123456789) and
\* then halts; the source 48 58 doi emit loop writes 58 first and has not
\* halted when ticks_limit ends the run.
C18_IndexLoopLimitFirst ==
    /\ WritesThenHalts(IndexLoopSourceLimitFirst, Digits)
    /\ hist.source = IndexLoopSource /\ Undisturbed
       => /\ pc # "halted"
          /\ Written # <<>> => Written[1] = 58

\* the run of 58 48 doi emit loop has halted after its ten writes
C18_Witness ==
    /\ hist.source = IndexLoopSourceLimitFirst
    /\ Undisturbed
    /\ pc = "halted"
    /\ stdout = Digits
    /\ data_path.pra_shp_pointer = ForthMemorySize - 1

\* count copies of value
Repeat(value, count) == [i \in 1..count |-> value]

\* first, first + 1, ..., first + count - 1
Upwards(first, count) == [i \in 1..count |-> first + i - 1]

\* the run of source halts after exactly count writes to the main port,
\* with PRA_SHP where it was before the loop
HaltsAfter(source, count) ==
    hist.source = source /\ Undisturbed
    => /\ Len(hist.writes) <= count
       /\ pc \notin {"limit", "crashed"}
       /\ pc = "halted" => /\ Len(hist.writes) = count
                           /\ data_path.pra_shp_pointer = ForthMemorySize - 1

\* C19: for L S do body loop, L pushed first and S second, S < L, with a
\* stack-neutral body, the body executes exactly L - S times and the loop
\* exits with PRA_SHP as it was before do; with doi the index pushed for
\* the body takes the values S, S + 1, ..., L - 1 in this order; for mloop
\* with S > L the body executes exactly S - L times.  The body is 65 emit
\* for do and emit for doi, so that it writes once per execution.
C19_CountedLoop ==
    \A p \in Ascending :
      LET low == p[1]
          high == p[2]
      IN /\ WritesThenHalts(DoSource(high, low, "loop"), Repeat(InputChar, high - low))
         /\ HaltsAfter(DoSource(high, low, "loop"), high - low)
         /\ WritesThenHalts(DoiSource(high, low, "loop"), Upwards(low, high - low))
         /\ HaltsAfter(DoiSource(high, low, "loop"), high - low)
         /\ WritesThenHalts(DoSource(low, high, "mloop"), Repeat(InputChar, high - low))
         /\ HaltsAfter(DoSource(low, high, "mloop"), high - low)
         /\ HaltsAfter(DoiSource(low, high, "mloop"), high - low)

\* the run of MaxLoopBound 0 doi emit loop has halted after writing
\* 0, ..., MaxLoopBound - 1
C19_Witness ==
    /\ hist.source = DoiSource(MaxLoopBound, 0, "loop")
    /\ Undisturbed
    /\ pc = "halted"
    /\ Written = Upwards(0, MaxLoopBound)
    /\ data_path.pra_shp_pointer = ForthMemorySize - 1

\* the JMP of a leave has completed: in the sources with leave it is the JMP
\* that follows the WRITE_PORT of 65 emit
LeaveTaken ==
    /\ Completed
    /\ hist.source \in LeaveSources
    /\ Executed.opcode = "jmp"
    /\ Mem(hist.start.data_path,
           Num(hist.start.data_path.instruction_pointer.arg - 1)).opcode = "write port"

\* the main program is at the NUMBER value that follows a loop
AtNumber(value) ==
    /\ ~control_unit.is_in_interruption
    /\ CurrentInstruction.opcode = "number"
    /\ CurrentInstruction.arg = value

\* the instruction before the one IP points to
Previous == Mem(data_path, Num(data_path.instruction_pointer.arg - 1))

\* C20: a leave in a counted loop leaves the innermost enclosing loop only,
\* without executing the rest of the body, and PRA_SHP ends as it was before
\* the do of that loop (the leave lands on the first of the two
\* SHIFT_BACK_RET); in begin ... until it continues at the instruction after
\* the EXEC_COND_JMP of the loop with PRA_SHP unchanged.  The bodies are
\* 65 emit leave 66 emit, followed by 67 emit after the loop (68 emit after
\* the outer loop).
C20_Leave ==
    /\ \A source \in CountedLeaveSources \cup { UntilLeaveSource } :
         WritesThenHalts(source, << 65, 67 >>)
    /\ WritesThenHalts(NestedLeaveSource, << 65, 67, 65, 67, 68 >>)
    /\ WritesThenHalts(ConditionalLeaveSource, << 66, 65, 67 >>)
    /\ WritesThenHalts(UntilLeaveInDoSource, << 65, 66, 65, 66, 67 >>)
    /\ LeaveTaken =>
         /\ data_path.pra_shp_pointer = hist.start.data_path.pra_shp_pointer
         /\ IF hist.source \in { UntilLeaveSource, UntilLeaveInDoSource }
            THEN Previous.opcode = "exec cond jmp"
            ELSE /\ Previous.opcode = "exec cond jmp ret"
                 /\ CurrentInstruction.opcode = "shift back ret"
    /\ hist.source \in CountedLeaveSources \cup { ConditionalLeaveSource } /\ AtNumber(67)
         => data_path.pra_shp_pointer = ForthMemorySize - 1
    /\ hist.source = NestedLeaveSource /\ AtNumber(67)
         => data_path.pra_shp_pointer = ForthMemorySize - 3
    /\ hist.source = NestedLeaveSource /\ AtNumber(68)
         => data_path.pra_shp_pointer = ForthMemorySize - 1

\* the leave of the inner loop is taken in the second pass of the outer loop
C20_Witness ==
    /\ LeaveTaken
    /\ hist.source = NestedLeaveSource
    /\ Written = << 65, 67, 65 >>
    /\ CurrentInstruction.opcode = "shift back ret"
    /\ data_path.pra_shp_pointer = ForthMemorySize - 5

\* C21: for f if A else B then with the flag f popped by EXEC_IF exactly one
\* branch executes, A when f = 0 and B when f # 0, and execution continues
\* at the first instruction after then; without else A executes iff f = 0;
\* 5 3 > if 89 emit else 78 emit then writes exactly the value 89.  Here A
\* writes 65, B writes 66 and the instructions after then write 67.
C21_OneBranch ==
    /\ \A f \in Operands :
         /\ WritesThenHalts(IfElseSource(f),
                            IF f = 0 THEN << InputChar, InputChar + 2 >>
                            ELSE << InputChar + 1, InputChar + 2 >>)
         /\ WritesThenHalts(IfSource(f),
                            IF f = 0 THEN << InputChar, InputChar + 2 >>
                            ELSE << InputChar + 2 >>)
    /\ WritesThenHalts(ConditionalSource, << 89 >>)
    /\ (hist.source \in IfSources /\ Undisturbed /\ pc = "halted")
          => data_path.od_sh_pointer = data_path.od_stack_start

\* the run of 2 if 65 emit else 66 emit then 67 emit has halted after
\* writing 66 and 67, and the run of 5 3 > if ... after writing 89
C21_Witness ==
    /\ Undisturbed
    /\ pc = "halted"
    /\ \/ hist.source = IfElseSource(MaxOperand) /\ stdout = << InputChar + 1, InputChar + 2 >>
       \/ hist.source = ConditionalSource /\ stdout = << 89 >>

\* C22 as stated: the source that defines : dbl dup + ; (the colon standing
\* alone) and then executes 21 dbl emit, run with HALT-only handlers and an
\* empty input schedule, compiles, writes exactly one value, 42, to the
\* main port and then halts.
C22_DblColonAlone ==
    /\ hist.source = DblSourceColonAlone => pc # "failed"
    /\ WritesThenHalts(DblSourceColonAlone, << 42 >>)

\* C22, amended: the source that defines :dbl dup + ; (the colon joined to
\* the name) and then executes 21 dbl emit, run with HALT-only handlers and
\* an empty input schedule, compiles, writes exactly one value, 42, to the
\* main port and then halts; the translation of the source with the colon
\* standing alone raises.
C22_DblColonJoined ==
    /\ hist.source = DblSource => pc # "failed"
    /\ WritesThenHalts(DblSource, << 42 >>)
    /\ (hist.source = DblSourceColonAlone /\ pc # "source") => pc = "failed"

\* the run of :dbl dup + ; 21 dbl emit has halted after writing 42
C22_Witness ==
    /\ hist.source = DblSource
    /\ Undisturbed
    /\ hist.code = translate(DblSource)
    /\ pc = "halted"
    /\ stdout = << 42 >>

\* the words of the language and the words a source may define
LanguageWords == BuiltInWords \cup PortWords \cup OpeningWords \cup MiddleWords \cup ClosingWords

LoopOpenings == {"do", "doi", "begin"}

\* the closing word that ends the block an opening word starts
Closes(closing, opening) ==
    \/ closing \in {"loop", "mloop"} /\ opening \in {"do", "doi"}
    \/ closing = "until" /\ opening = "begin"
    \/ closing = "then" /\ opening = "if"

RECURSIVE OpenBlocks(_, _)
\* the opening words of the blocks open after the first count terms,
\* innermost last: a closing word closes the innermost open block
OpenBlocks(terms, count) ==
    IF count = 0 THEN <<>>
    ELSE LET open == OpenBlocks(terms, count - 1)
             term == terms[count]
         IN IF term.kind # "word" THEN open
            ELSE IF term.name \in OpeningWords THEN Append(open, term.name)
            ELSE IF term.name \in ClosingWords /\ open # <<>> THEN Pop(open)
            ELSE open

\* the nesting of a source read up to some term: open the positions of the
\* opening words of the blocks still open, innermost last; ends the position
\* of the closing word of each closed block and of the ; of each closed
\* definition; elses the position of the else of each if; leaves the
\* position of the opening word of the loop each leave leaves; def the
\* position of the :name of the open definition, 0 when none is open; defs
\* the position of the :name of each defined word; ok whether every term so
\* far was in its place
NoNesting ==
    [ok |-> TRUE, open |-> <<>>, ends |-> <<>>, elses |-> <<>>, leaves |-> <<>>,
     def |-> 0, defs |-> <<>>]

Misplaced(n) == [n EXCEPT !.ok = FALSE]

NestingStep(n, terms, i) ==
    LET term == terms[i]
        top == n.open[Len(n.open)]
        loops == { k \in 1..Len(n.open) : terms[n.open[k]].name \in LoopOpenings }
        innermost == CHOOSE k \in loops : \A m \in loops : m <= k
    IN CASE term.kind = "unknown" -> Misplaced(n)
         [] term.kind = ":" ->
              IF n.def = 0 /\ n.open = <<>> /\ term.name \notin DOMAIN n.defs
              THEN [n EXCEPT !.def = i, !.defs = (term.name :> i) @@ @]
              ELSE Misplaced(n)
         [] term.kind = ";" ->
              IF n.def # 0 /\ n.open = <<>>
              THEN [n EXCEPT !.def = 0, !.ends = (n.def :> i) @@ @]
              ELSE Misplaced(n)
         [] term.kind = "word" /\ term.name \in OpeningWords ->
              [n EXCEPT !.open = Append(@, i)]
         [] term.kind = "word" /\ term.name = "else" ->
              IF n.open # <<>> /\ terms[top].name = "if" /\ top \notin DOMAIN n.elses
              THEN [n EXCEPT !.elses = (top :> i) @@ @]
              ELSE Misplaced(n)
         [] term.kind = "word" /\ term.name = "leave" ->
              IF loops # {}
              THEN [n EXCEPT !.leaves = (i :> n.open[innermost]) @@ @]
              ELSE Misplaced(n)
         [] term.kind = "word" /\ term.name \in ClosingWords ->
              IF n.open # <<>> /\ Closes(term.name, terms[top].name)
              THEN [n EXCEPT !.open = Pop(@), !.ends = (top :> i) @@ @]
              ELSE Misplaced(n)
         [] OTHER -> n

RECURSIVE NestingUpTo(_, _)
NestingUpTo(terms, i) ==
    IF i = 0 THEN NoNesting ELSE NestingStep(NestingUpTo(terms, i - 1), terms, i)

Nesting(terms) == NestingUpTo(terms, Len(terms))

\* a source with properly nested blocks and only defined words
ProperlyNested(terms) ==
    LET n == Nesting(terms)
    IN /\ n.ok /\ n.open = <<>> /\ n.def = 0
       /\ \A i \in 1..Len(terms) :
            terms[i].kind = "word" => terms[i].name \in LanguageWords \cup DOMAIN n.defs

\* the number of instructions a term compiles to
Width(terms, i) ==
    LET term == terms[i]
    IN CASE term.kind = "-" -> 0
         [] term.kind = "&" -> 2
         [] term.kind = "word" /\ term.name \in {"begin", "then"} -> 0
         [] term.kind = "word" /\ term.name \in {"if", "cr"} -> 2
         [] term.kind = "word" /\ term.name \in {"do", "until"} -> 3
         [] term.kind = "word" /\ term.name = "doi" -> 4
         [] term.kind = "word" /\ term.name \in {"loop", "mloop"} -> 5
         [] term.kind = "word" /\ term.name \notin LanguageWords -> 2
         [] OTHER -> 1

RECURSIVE StartOf(_, _)
\* the index of the first instruction of term i
StartOf(terms, i) ==
    IF i = 1 THEN 0 ELSE StartOf(terms, i - 1) + Width(terms, i - 1)

\* the jumps of a properly nested source: at is the index of the jump, to
\* the index of the instruction it is meant to reach
Jumps(terms) ==
    LET n == Nesting(terms)
        At(i) == StartOf(terms, i)
        Is(i, name) == terms[i].kind = "word" /\ terms[i].name = name
    IN { [opcode |-> "jmp", at |-> At(i) + 1,
          to |-> IF i \in DOMAIN n.elses THEN At(n.elses[i]) + 1 ELSE At(n.ends[i])] :
            i \in { k \in 1..Len(terms) : Is(k, "if") } }
       \cup
       { [opcode |-> "jmp", at |-> At(n.elses[i]), to |-> At(n.ends[i])] :
            i \in DOMAIN n.elses }
       \cup
       { [opcode |-> "exec cond jmp", at |-> At(n.ends[i]) + 2, to |-> At(i)] :
            i \in { k \in 1..Len(terms) : Is(k, "begin") } }
       \cup
       { [opcode |-> "exec cond jmp ret", at |-> At(n.ends[i]) + 2, to |-> At(i) + 3] :
            i \in { k \in 1..Len(terms) : Is(k, "do") \/ Is(k, "doi") } }
       \cup
       { [opcode |-> "jmp", at |-> At(i), to |-> At(n.ends[n.leaves[i]]) + 3] :
            i \in DOMAIN n.leaves }
       \cup
       { [opcode |-> "jmp", at |-> At(i), to |-> At(n.ends[i]) + 1] :
            i \in { k \in 1..Len(terms) : terms[k].kind = ":" } }
       \cup
       { [opcode |-> "jmp", at |-> At(i) + 1, to |-> At(n.defs[terms[i].name]) + 1] :
            i \in { k \in 1..Len(terms) :
                      terms[k].kind = "word" /\ terms[k].name \in DOMAIN n.defs } }

JumpOpcodes == {"jmp", "exec cond jmp", "exec cond jmp ret"}

\* the program the translator wrote
Compiled == pc \notin {"source", "failed"}

\* the jumps of code are the jumps of terms, each with an integer arg
\* that leads to the instruction meant
JumpsAsMeant(terms, code) ==
    /\ \A j \in Jumps(terms) :
         /\ j.at + 1 \in 1..Len(code)
         /\ j.to \in 0..(Len(code) - 1)
         /\ code[j.at + 1].opcode = j.opcode
         /\ code[j.at + 1].has_arg
         /\ j.to = j.at + code[j.at + 1].arg + (IF j.opcode = "jmp" THEN 0 ELSE 1)
    /\ \A i \in 1..Len(code) :
         code[i].opcode \in JumpOpcodes => \E j \in Jumps(terms) : j.at = i - 1

\* C23: in every program compiled from a source with properly nested blocks
\* and only defined words, every JMP, EXEC_COND_JMP and EXEC_COND_JMP_RET
\* has an integer arg, and its target (index + arg for JMP, index + 1 + arg
\* for the conditional forms) is the instruction meant, in 0..index(HALT):
\* the start of the else-branch or the instruction after then, the loop top,
\* the word body entry, the instruction after the word body, or the loop
\* exit for leave.
C23_JumpTargets ==
    (Compiled /\ ProperlyNested(hist.source)) => JumpsAsMeant(hist.source, hist.code)

\* the same for the sources that declare no array: these programs jump as
\* meant
C23_JumpTargetsWithoutArrays ==
    (Compiled /\ ProperlyNested(hist.source)
       /\ \A i \in 1..Len(hist.source) : hist.source[i].kind # "-")
    => JumpsAsMeant(hist.source, hist.code)

\* some leave of terms has no open loop around it
LeaveOutsideLoop(terms) ==
    \E i \in 1..Len(terms) :
       /\ terms[i].kind = "word" /\ terms[i].name = "leave"
       /\ LET open == OpenBlocks(terms, i - 1)
          IN \A k \in 1..Len(open) : open[k] \notin LoopOpenings

\* C24: compilation fails (raises and produces no program) for every source
\* in which leave occurs while no do/doi/begin loop is open.
C24_LeaveOutsideLoopFails ==
    (pc # "source" /\ LeaveOutsideLoop(hist.source))
    => pc = "failed" /\ hist.code = <<>>

\* the translation of if leave then has raised
C24_Witness ==
    /\ hist.source = << WordTerm("if"), WordTerm("leave"), WordTerm("then") >>
    /\ LeaveOutsideLoop(hist.source)
    /\ pc = "failed"

\* some closing word of terms does not close the innermost open block, or
\* terms ends with a block open
Mismatched(terms) ==
    \/ \E i \in 1..Len(terms) :
          /\ terms[i].kind = "word" /\ terms[i].name \in ClosingWords
          /\ LET open == OpenBlocks(terms, i - 1)
             IN open = <<>> \/ ~Closes(terms[i].name, Last(open))
    \/ OpenBlocks(terms, Len(terms)) # <<>>

\* C25: compilation fails for every source in which a closing word does not
\* match the innermost open block (loop/mloop not closing a do/doi, until
\* not closing a begin, then not closing an if), also when other blocks are
\* open at that point, and for every source that ends with a block still
\* open.
C25_MismatchFails ==
    (pc # "source" /\ Mismatched(hist.source)) => pc = "failed"

\* some if of terms has a second else before its then
SecondElse(terms) ==
    \E i \in 1..Len(terms) :
       /\ terms[i].kind = "word" /\ terms[i].name = "else"
       /\ LET n == NestingUpTo(terms, i - 1)
          IN /\ n.ok
             /\ n.open # <<>>
             /\ terms[Last(n.open)].name = "if"
             /\ Last(n.open) \in DOMAIN n.elses

\* C26: compilation fails for every source in which one if block contains a
\* second else before its then.
C26_SecondElseFails ==
    (pc # "source" /\ SecondElse(hist.source)) => pc = "failed"

RECURSIVE InDefinition(_, _)
\* a word definition is open after the first count terms
InDefinition(terms, count) ==
    IF count = 0 THEN FALSE
    ELSE CASE terms[count].kind = ":" -> TRUE
           [] terms[count].kind = ";" -> FALSE
           [] OTHER -> InDefinition(terms, count - 1)

\* some :name of terms is inside an open definition, or some ; is where no
\* definition is open
MisplacedDefinition(terms) ==
    \E i \in 1..Len(terms) :
       \/ terms[i].kind = ":" /\ InDefinition(terms, i - 1)
       \/ terms[i].kind = ";" /\ ~InDefinition(terms, i - 1)

\* C27: compilation fails for every source in which a :name appears inside a
\* word definition that has not been closed by ;, or in which a ; appears
\* while no word definition is open (including a second ; after a closed
\* definition).
C27_MisplacedDefinitionFails ==
    (pc # "source" /\ MisplacedDefinition(hist.source)) => pc = "failed"

\* some token of the source matches none of the token classes
HasUnknownToken(tokens) == \E i \in 1..Len(tokens) : tokens[i].kind = "unknown"

\* C28: compilation fails for every source that contains, outside comments
\* and string literals, a token matching none of the token classes; no such
\* token is silently discarded from the term stream.
C28_UnknownTokenFails ==
    (pc # "source" /\ HasUnknownToken(hist.source)) => pc = "failed"

\* C29: for every compiled program, the instruction at list position i has
\* index i, the last instruction is HALT, and no other instruction of the
\* program is HALT.
C29_IndexesAndHalt ==
    Compiled =>
      /\ hist.code # <<>>
      /\ \A i \in 1..Len(hist.code) :
           /\ hist.code[i].id = i - 1
           /\ hist.code[i].opcode = "halt" <=> i = Len(hist.code)

\* the program of do x-2 leave loop has been written: ten instructions
C29_Witness ==
    /\ hist.source = ArrayLeaveSource
    /\ pc = "written"
    /\ Len(hist.code) = 10
    /\ hist.code[10].opcode = "halt" /\ hist.code[10].id = 9

\* the positions of the terms of terms that use or declare the variable
UsesOf(terms, name) ==
    { i \in 1..Len(terms) : terms[i].kind \in {"!", "?", "&", "-"} /\ terms[i].name = name }

Variables(terms) ==
    { terms[i].name : i \in { k \in 1..Len(terms) : terms[k].kind \in {"!", "?", "&", "-"} } }

FirstUse(terms, name) ==
    CHOOSE i \in UsesOf(terms, name) : \A k \in UsesOf(terms, name) : i <= k

\* the largest size declared for the variable, 1 for each scalar use
SizeOf(terms, name) ==
    LET sizes == { IF terms[i].kind = "-" THEN terms[i].value ELSE 1 : i \in UsesOf(terms, name) }
    IN CHOOSE size \in sizes : \A other \in sizes : other <= size

RECURSIVE SizesSum(_, _)
SizesSum(terms, names) ==
    IF names = {} THEN 0
    ELSE LET name == CHOOSE n \in names : TRUE
         IN SizeOf(terms, name) + SizesSum(terms, names \ {name})

\* the slot offset of the variable: the sizes of the variables used first
\* before it, added up
OffsetOf(terms, name) ==
    SizesSum(terms, { other \in Variables(terms) :
                        FirstUse(terms, other) < FirstUse(terms, name) })

\* each instruction of code that refers to a variable carries the slot
\* offset of the variable
OffsetsAsMeant(terms, code) ==
    \A i \in 1..Len(terms) :
       terms[i].kind \in {"!", "?", "&"} =>
          /\ code[StartOf(terms, i) + 1].has_arg
          /\ code[StartOf(terms, i) + 1].arg = OffsetOf(terms, terms[i].name)

\* C30: after compilation, all instructions that refer to the same variable
\* name carry the same slot offset, offsets are assigned cumulatively in
\* order of first use of each name, and the ranges [offset, offset + size)
\* of distinct variables are pairwise disjoint, where size is the largest
\* size declared for that name (1 for a name used only as a scalar).
C30_SlotOffsets ==
    (Compiled /\ ~HasUnknownToken(hist.source))
    => OffsetsAsMeant(hist.source, hist.code)

\* the same for the sources that declare no array: these programs carry
\* the offsets meant
C30_SlotOffsetsWithoutArrays ==
    (Compiled /\ ~HasUnknownToken(hist.source)
       /\ \A i \in 1..Len(hist.source) : hist.source[i].kind # "-")
    => OffsetsAsMeant(hist.source, hist.code)

\* the state DataPath.__init__ leaves, before the first pass of the loop
Booted == pc = "head" /\ hist.ev = "init" /\ control_unit.ticks_counter = 0

\* the cells first, first + 1, ... of the data memory hold the instructions
\* of code
Holds_code(dp, first, code) ==
    \A i \in 1..Len(code) :
       LET cell == Mem(dp, Num(first + i - 1))
       IN cell.k = "ins" /\ cell.opcode = code[i].opcode /\ cell.arg = code[i].arg
          /\ cell.has_arg = code[i].has_arg

\* C31: after boot with N >= 1 ports, handler-table cells 2i and 2i+1 hold
\* the start addresses of the write handler and of the read handler of port
\* i, handler code is stored contiguously from address 2N, V is the first
\* address after the last handler, IP = V + var_memory_size is the address
\* of the first program instruction, OD_SHP = OD_STACK_START = IP +
\* len(program), PRA_SHP = M - 1 and ISN = 1; the handler table, handler
\* code, variable region and program region do not overlap.
C31_BootLayout ==
    Booted =>
      LET dp == data_path
          N == Len(ports_description)
          V == 2 * N + HandlersLength(ports_description, N)
          WriteStart(i) == 2 * N + HandlersLength(ports_description, i)
          ReadStart(i) == WriteStart(i) + Len(ports_description[i + 1].interrupt_code_on_write)
      IN /\ N >= 1
         /\ \A i \in 0..(N - 1) :
              /\ Mem(dp, Num(2 * i)) = Num(WriteStart(i))
              /\ Mem(dp, Num(2 * i + 1)) = Num(ReadStart(i))
              /\ Holds_code(dp, WriteStart(i), ports_description[i + 1].interrupt_code_on_write)
              /\ Holds_code(dp, ReadStart(i), ports_description[i + 1].interrupt_code_on_read)
              /\ 2 * N <= WriteStart(i)
              /\ ReadStart(i) + Len(ports_description[i + 1].interrupt_code_on_read) <= V
         /\ dp.var_data_start_point = V
         /\ dp.instruction_pointer = Num(V + VarMemorySize)
         /\ \A a \in V..(V + VarMemorySize - 1) : Mem(dp, Num(a)) = Num(0)
         /\ \E program \in MainPrograms :
              /\ Holds_code(dp, V + VarMemorySize, program)
              /\ dp.od_stack_start = V + VarMemorySize + Len(program)
         /\ dp.od_sh_pointer = dp.od_stack_start
         /\ dp.od_stack_start <= MemorySize(ports_description)
         /\ dp.pra_shp_pointer = MemorySize(ports_description) - 1
         /\ dp.instruction_stage_number = Num(1)

\* the machine of two ports has booted: the table takes four cells and the
\* handlers of the second port start after the four instructions of the first
C31_Witness ==
    /\ Booted
    /\ Len(ports_description) = 2
    /\ Mem(data_path, Num(2)) = Num(8)
    /\ Mem(data_path, Num(3)) = Num(11)
    /\ data_path.var_data_start_point = 12

RECURSIVE Finish(_, _)
\* the data path after the ticks that are left of the instruction under
\* execution, executed without a dispatch
Finish(dp, cu) ==
    LET r == next_tick_execute(dp, cu)
    IN IF r.stop \/ r.dp.raised \/ r.dp.instruction_stage_number = Num(1) THEN r.dp
       ELSE Finish(r.dp, r.cu)

\* the operand stack: the cells above OD_STACK_START up to OD_SHP
OperandStack(dp) ==
    [i \in 1..Elements(dp) |-> Mem(dp, Num(dp.od_stack_start + i))]

\* an instruction of the main program has executed its last tick after the
\* only dispatch of the run, an input interrupt with the handler StackHandler
\* taken between two of its ticks, has returned
Resumed ==
    /\ hist.ev = "tick"
    /\ data_path.instruction_stage_number = Num(1)
    /\ ~control_unit.is_in_interruption
    /\ hist.entries = 1 /\ hist.exits = 1
    /\ hist.ctx.is_write_interruption
    /\ ports_description = StackPorts
    /\ hist.ctx.data_path.instruction_stage_number # Num(1)
    /\ data_path.cur_tick_regs_state.ip = hist.ctx.data_path.instruction_pointer
    /\ hist.start.entries = 1
    /\ hist.start.data_path.instruction_pointer # hist.ctx.data_path.instruction_pointer

\* C32: for a read handler that is operand-stack neutral and uses the stack
\* (READ_PORT 0; WRITE_VARDATA k; HALT) and an interrupt taken between any
\* two ticks of any multi-tick opcode of the main program, OD_SHP, PRA_SHP,
\* TOP, NEXT and the operand-stack contents after the interrupted opcode
\* completes equal those of the same opcode run from the same state without
\* the interrupt.
C32_InterruptTransparent ==
    Resumed =>
      LET alone == Finish(hist.ctx.data_path, hist.ctx.control_unit)
      IN /\ ~alone.raised
         /\ data_path.od_sh_pointer = alone.od_sh_pointer
         /\ data_path.pra_shp_pointer = alone.pra_shp_pointer
         /\ data_path.top = alone.top
         /\ data_path.next = alone.next
         /\ OperandStack(data_path) = OperandStack(alone)

\* an instruction has completed that started on a stack of at least three
\* elements whose two upper ones are in NEXT and TOP
CompletedOnThree ==
    /\ Completed
    /\ Elements(hist.start.data_path) >= 3
    /\ hist.start.data_path.next = StackCell(hist.start.data_path, 1)
    /\ hist.start.data_path.top = StackCell(hist.start.data_path, 0)

\* C33: SHIFT_BACK completes in one tick and pops one element: for a stack
\* whose three top elements are a, b, c (c on top), afterwards OD_SHP is
\* decreased by 1, TOP = b and NEXT = a, the cell at the new OD_SHP - 1.
C33_ShiftBackPops ==
    CompletedOnThree /\ Executed.opcode = "shift back"
    => LET before == hist.start.data_path
       IN /\ control_unit.ticks_counter = hist.start.ticks_counter + 1
          /\ data_path.od_sh_pointer = before.od_sh_pointer - 1
          /\ data_path.top = StackCell(before, 1)
          /\ data_path.next = StackCell(before, 2)
          /\ data_path.next = StackCell(data_path, 1)

\* C34: PUT with TOP = n >= 0 and NEXT = v completes in two ticks: it writes
\* v to cell OD_SHP - n - 2, decreases OD_SHP by 2, and on completion
\* TOP = mem[OD_SHP] and NEXT = mem[OD_SHP - 1] for the new OD_SHP, with IP
\* increased by 1; PUT_ABSOLUTE does the same with the write going to the
\* absolute address held in TOP.
C34_PutStep ==
    /\ CompletedOnTwo
    /\ Executed.opcode \in {"put", "put absolute"}
    /\ hist.start.data_path.top.arg >= 0
    => LET before == hist.start.data_path
           n == before.top.arg
           target == IF Executed.opcode = "put" THEN before.od_sh_pointer - n - 2 ELSE n
       IN /\ control_unit.ticks_counter = hist.start.ticks_counter + 2
          /\ Mem(data_path, Num(target)) = before.next
          /\ data_path.od_sh_pointer = before.od_sh_pointer - 2
          /\ data_path.top = StackCell(data_path, 0)
          /\ data_path.next = StackCell(data_path, 1)
          /\ data_path.instruction_pointer = Num(before.instruction_pointer.arg + 1)

PortFlagOpcodes == {"has port filled with device", "has port filled with cpu"}

\* C35: HAS_PORT_FILLED_WITH_DEVICE p pushes one element: afterwards OD_SHP
\* is increased by 1 and both TOP and mem[OD_SHP] equal 0 if
\* ports[p].filled_with_device is set and -1 otherwise;
\* HAS_PORT_FILLED_WITH_CPU p does the same for ports[p].filled_with_cpu;
\* neither changes any port flag or port data.
C35_PortFlagPush ==
    Completed /\ Executed.opcode \in PortFlagOpcodes
    => LET before == hist.start.data_path
           port == before.ports[Executed.arg + 1]
           set == IF Executed.opcode = "has port filled with device"
                  THEN port.filled_with_device ELSE port.filled_with_cpu
           flag == IF set THEN Num(0) ELSE Num(-1)
       IN /\ data_path.od_sh_pointer = before.od_sh_pointer + 1
          /\ data_path.top = flag
          /\ StackCell(data_path, 0) = flag
          /\ data_path.ports = before.ports

\* C36: SUM_TOP_WITH_VDSP takes exactly two ticks and leaves
\* TOP = mem[OD_SHP] = old TOP + V (V the start of the variable region), with
\* OD_SHP and NEXT unchanged and IP increased by 1.
C36_SumTopWithVdsp ==
    /\ Completed
    /\ Executed.opcode = "sum top with vdsp"
    /\ IsNum(hist.start.data_path.top)
    => LET before == hist.start.data_path
           result == Num(before.top.arg + before.var_data_start_point)
       IN /\ control_unit.ticks_counter = hist.start.ticks_counter + 2
          /\ data_path.top = result
          /\ StackCell(data_path, 0) = result
          /\ data_path.od_sh_pointer = before.od_sh_pointer
          /\ data_path.next = before.next
          /\ data_path.instruction_pointer = Num(before.instruction_pointer.arg + 1)

\* C36, as the code has it: SUM_TOP_WITH_VDSP takes exactly one tick and
\* leaves TOP = mem[OD_SHP] = old TOP + V, with OD_SHP and NEXT unchanged
\* and IP increased by 1.
C36_SumTopWithVdspInOneTick ==
    /\ Completed
    /\ Executed.opcode = "sum top with vdsp"
    /\ IsNum(hist.start.data_path.top)
    => LET before == hist.start.data_path
           result == Num(before.top.arg + before.var_data_start_point)
       IN /\ control_unit.ticks_counter = hist.start.ticks_counter + 1
          /\ data_path.top = result
          /\ StackCell(data_path, 0) = result
          /\ data_path.od_sh_pointer = before.od_sh_pointer
          /\ data_path.next = before.next
          /\ data_path.instruction_pointer = Num(before.instruction_pointer.arg + 1)

\* x& of `0 h! 7 x! x? x& drop` has left the address of the second variable
\* cell over the value read from it
C36_Witness ==
    /\ Completed
    /\ Executed.opcode = "sum top with vdsp"
    /\ hist.source = VariableSource
    /\ hist.start.data_path.top = Num(1)
    /\ data_path.top = Num(data_path.var_data_start_point + 1)
    /\ data_path.next = Num(Marker)
    /\ Mem(data_path, data_path.top) = Num(Marker)

\* the number of ticks C37 gives for an opcode, 0 for an opcode it leaves out
TicksOf(opcode) ==
    CASE opcode \in {"number", "dup", "shift back", "shift back ret", "jmp", "exec if",
                     "exec cond jmp", "exec cond jmp ret", "push inc inc ip to pra shp",
                     "read port", "write port"} \cup PortFlagOpcodes -> 1
      [] opcode \in BinaryAlu \cup {"dudup", "swap", "pick", "put", "pop to ret",
                                    "jmp pop pra shp"} -> 2
      [] opcode \in {"push to od", "dup ret", "increment ret", "decrement ret",
                     "eq not consuming ret"} -> 3
      [] OTHER -> 0

\* the opcodes C37 gives a number of ticks for
TimedOpcodes ==
    BinaryAlu \cup PortFlagOpcodes
      \cup {"number", "dup", "shift back", "shift back ret", "jmp", "exec if",
            "exec cond jmp", "exec cond jmp ret", "push inc inc ip to pra shp",
            "read port", "write port", "dudup", "swap", "pick", "put", "pop to ret",
            "jmp pop pra shp", "push to od", "dup ret", "increment ret",
            "decrement ret", "eq not consuming ret"}

\* the stage in which the match on the opcode returns True, 0 if none of the
\* first three does
LastStage(instruction) ==
    IF \E stage \in 1..3 : Decode(instruction, stage).last
    THEN CHOOSE stage \in 1..3 :
           /\ Decode(instruction, stage).last
           /\ \A earlier \in 1..(stage - 1) :
                ~Decode(instruction, earlier).last /\ ~Decode(instruction, earlier).raised
    ELSE 0

\* an instruction has executed its last tick and no dispatch has happened
\* since its first one
Finished ==
    /\ hist.ev = "tick"
    /\ data_path.instruction_stage_number = Num(1)
    /\ hist.start.entries = hist.entries
    /\ hist.start.data_path.instruction_stage_number = Num(1)
    /\ data_path.cur_tick_regs_state.ip = hist.start.data_path.instruction_pointer
    /\ Executed.k = "ins"

\* C37: ISN is in {1, 2, 3} in every reachable state, and each opcode takes
\* a fixed number of ticks independent of operand values: 1 for NUMBER, DUP,
\* SHIFT_BACK, SHIFT_BACK_RET, JMP, EXEC_IF, EXEC_COND_JMP,
\* EXEC_COND_JMP_RET, PUSH_INC_INC_IP_TO_PRA_SHP, READ_PORT, WRITE_PORT and
\* the HAS_PORT_* opcodes; 2 for the binary ALU opcodes, DUDUP, SWAP, PICK,
\* PUT, POP_TO_RET and JMP_POP_PRA_SHP; 3 for PUSH_TO_OD, DUP_RET,
\* INCREMENT_RET, DECREMENT_RET and EQ_NOT_CONSUMING_RET.
C37_StagesAndTicks ==
    /\ data_path.instruction_stage_number \in {Num(1), Num(2), Num(3)}
    /\ Finished /\ TicksOf(Executed.opcode) > 0
       => control_unit.ticks_counter = hist.start.ticks_counter + TicksOf(Executed.opcode)
    /\ \A opcode \in TimedOpcodes :
         LastStage(InstructionNoArg(opcode)) = TicksOf(opcode)

\* EQ_NOT_CONSUMING_RET of a counted loop has taken its three ticks
C37_Witness ==
    /\ Finished
    /\ Executed.opcode = "eq not consuming ret"
    /\ control_unit.ticks_counter = hist.start.ticks_counter + 3

\* the EXEC_COND_JMP of the until of UntilSource has executed; hist.until is
\* the state the NUMBER 0 of that until started from, with the value that
\* body left on top of the operand stack
UntilDone ==
    /\ Completed
    /\ hist.source = UntilSource
    /\ Executed.opcode = "exec cond jmp"
    /\ hist.until.entries = hist.entries
    /\ hist.start.data_path.instruction_pointer =
         Num(hist.until.data_path.instruction_pointer.arg + 2)
    /\ hist.until.data_path.top = StackCell(hist.until.data_path, 0)

\* the address of the first instruction of the body of the begin of
\* UntilSource
BodyStart ==
    LET begin == CHOOSE i \in 1..Len(UntilSource) : UntilSource[i] = WordTerm("begin")
    IN data_path.od_stack_start - Len(translate(UntilSource)) + StartOf(UntilSource, begin)

\* C38: in `begin body until`, after each execution of body the value on top
\* of the operand stack is consumed; control returns to the first
\* instruction of body when that value is 0 and falls through to the
\* instruction after the EXEC_COND_JMP when it is non-zero, and in both
\* cases OD_SHP is one lower than before until consumed the value.
C38_UntilLoops ==
    UntilDone
    => LET before == hist.until.data_path
           value == before.top
       IN /\ data_path.od_sh_pointer = before.od_sh_pointer - 1
          /\ data_path.top = StackCell(before, 1)
          /\ data_path.instruction_pointer =
               IF value = Num(0) THEN Num(BodyStart)
               ELSE Num(hist.start.data_path.instruction_pointer.arg + 1)

\* until has met 0 and control is back at the first instruction of body
C38_Witness ==
    /\ UntilDone
    /\ hist.until.data_path.top = Num(0)
    /\ data_path.instruction_pointer = Num(BodyStart)
    /\ CurrentInstruction = [Instruction("number", 65) EXCEPT !.id = BodyStart]

\* until has met -1 and control is at the instruction after the EXEC_COND_JMP
C38_WitnessFallsThrough ==
    /\ UntilDone
    /\ hist.until.data_path.top = Num(-1)
    /\ data_path.instruction_pointer # Num(BodyStart)

RECURSIVE Orders(_)
\* the orders in which the latch calls of one tick can be applied
Orders(latches) ==
    IF latches = <<>> THEN { <<>> }
    ELSE UNION { { << latches[i] >> \o rest :
                     rest \in Orders(SubSeq(latches, 1, i - 1)
                                      \o SubSeq(latches, i + 1, Len(latches))) } :
                 i \in 1..Len(latches) }

\* the data path next_tick_execute applies the latches of a tick to
Snapshot(dp) ==
    [dp EXCEPT !.cur_tick_regs_state =
        RegsState(dp.instruction_pointer, dp.od_sh_pointer, dp.pra_shp_pointer,
                  dp.top, dp.next)]

\* what the tick leaves of the state C39 lists
PostTick(dp) ==
    [ip |-> dp.instruction_pointer, od_shp |-> dp.od_sh_pointer,
     pra_shp |-> dp.pra_shp_pointer, top |-> dp.top, next |-> dp.next,
     data_memory |-> dp.data_memory, ports |-> dp.ports]

\* the latches of the given stage of instruction, applied to dp in any
\* order, leave what they leave in the order of the code; an order in which
\* a latch raises is one in which a latch raises in the order of the code
AnyOrder(dp, instruction, stage) ==
    LET micro == Decode(instruction, stage)
        in_order == ApplyLatches(Snapshot(dp), instruction, micro.latches)
    IN ~micro.raised
       => \A order \in Orders(micro.latches) :
            LET latched == ApplyLatches(Snapshot(dp), instruction, order)
            IN /\ latched.raised = in_order.raised
               /\ ~latched.raised => PostTick(latched) = PostTick(in_order)

\* the opcodes that no program of the runs holds
OpcodesOutsideRuns == {"dup ret", "pick absolute", "put absolute"}

\* C39: for every opcode and every stage, the post-tick state (IP, OD_SHP,
\* PRA_SHP, TOP, NEXT, data memory, port data and flags) is the same for
\* every order in which that tick's latch operations are applied.
C39_LatchOrder ==
    pc = "exec"
    => /\ CurrentInstruction.k = "ins" /\ CurrentInstruction.opcode # "halt"
          => AnyOrder(data_path, CurrentInstruction, Stage(data_path))
       /\ \A opcode \in OpcodesOutsideRuns : \A stage \in 1..3 :
            AnyOrder(data_path, InstructionNoArg(opcode), stage)

\* the six latches of a WRITE_PORT are about to be applied to a stack of two
\* elements: 720 orders
C39_Witness ==
    /\ pc = "exec"
    /\ CurrentInstruction.k = "ins"
    /\ CurrentInstruction.opcode = "write port"
    /\ Len(Decode(CurrentInstruction, Stage(data_path)).latches) = 6
    /\ Elements(data_path) >= 2
    /\ ~ApplyLatches(Snapshot(data_path), CurrentInstruction,
                     Decode(CurrentInstruction, Stage(data_path)).latches).raised

\* the state of translate before the pass over vars_pcs: the lowering of
\* the terms and the patching of the word calls
Lowering(lines) ==
    LET terms == lines_to_terms(lines)
        s0 == [TranslateInit EXCEPT !.error = code_correctness_check(terms)]
        s1 == TermsFold(s0, terms)
    IN IF s1.error THEN s1 ELSE WordsPatch(s1, DOMAIN s1.word_jmp_pcs)

\* term i of terms emits no instruction
EmitsNothing(terms, i) ==
    Len(TermsFold(TranslateInit, SubSeq(terms, 1, i)).code)
      = Len(TermsFold(TranslateInit, SubSeq(terms, 1, i - 1)).code)

\* an instruction whose arg the pass over vars_pcs is to set: a
\* READ_VARDATA, a WRITE_VARDATA or the NUMBER of name&, which lowering
\* emits without an arg
SlotInstruction(instruction) ==
    \/ instruction.opcode \in {"read vardata", "write vardata"}
    \/ instruction.opcode = "number" /\ ~instruction.has_arg

\* C40: an array declaration token name-K emits no instruction, and the
\* end-of-pass variable slot patching changes the arg only of
\* READ_VARDATA/WRITE_VARDATA instructions and of the NUMBER emitted for
\* name&; the arg of every other instruction is the value lowering emitted
\* for it, and patching never indexes past the end of the code.
C40_PatchingFrame ==
    LET terms == lines_to_terms(hist.source)
        lowered == Lowering(hist.source)
    IN pc # "source" /\ ~lowered.error
       => /\ pc # "failed"
          /\ \A i \in 1..Len(terms) : terms[i].kind = "-" => EmitsNothing(terms, i)
          /\ Len(hist.code) = Len(lowered.code) + 1
          /\ \A i \in 1..Len(lowered.code) :
               ~SlotInstruction(lowered.code[i]) => hist.code[i] = lowered.code[i]

====
